---------------------------- MODULE Spec2Model ----------------------------
(***************************************************************************)
(* A model of the editing core of teehee, a modal hex editor: the byte     *)
(* rope and its deltas, the ordered multi-selection, the undo/redo history *)
(* and the Normal / Insert / Split dispatchers.                            *)
(*                                                                         *)
(* Conventions.  A rope is a sequence of bytes.  Offsets are 0-based as in *)
(* the source, so byte i of a rope r is r[i + 1].  A delta is a record     *)
(* [els, base_len]; an element is a unit copy [k |-> "c", v |-> i] of base *)
(* offset i, or a unit insert [k |-> "i", v |-> b] of byte b.  The source's*)
(* Copy(b, e) is the run of unit copies b .. e-1 and Insert(n) is the run  *)
(* of unit inserts of n's bytes; no operation of the delta algebra used by *)
(* the program distinguishes a run from its units.  A subset is the        *)
(* sequence of its per-position counts.                                    *)
(***************************************************************************)
EXTENDS Integers, Sequences, FiniteSets, TLC

(***************************************************************************)
(* Bounds of the model.                                                    *)
(***************************************************************************)
MaxLen == 2
MaxIns == 1
MaxByte == 1
MaxCount == 3
MaxUndo == 2
MaxKeys == 6
MaxHexDigit == 1
MaxBase == 3
MaxEdits == 2
HexDigits == 0..MaxHexDigit

Byte == 0..MaxByte

(***************************************************************************)
(* Sequence helpers.                                                       *)
(***************************************************************************)
Min2(a, b) == IF a <= b THEN a ELSE b
Max2(a, b) == IF a >= b THEN a ELSE b

RECURSIVE Flatten(_)
Flatten(ss) == IF ss = <<>> THEN <<>> ELSE Head(ss) \o Flatten(Tail(ss))

RECURSIVE SumSeq(_)
SumSeq(s) == IF s = <<>> THEN 0 ELSE Head(s) + SumSeq(Tail(s))

SeqsUpTo(S, n) == UNION {[1..k -> S] : k \in 0..n}

CopyEl(i) == [k |-> "c", v |-> i]
InsEl(b) == [k |-> "i", v |-> b]
\* Copy(a, b): unit copies of base offsets a .. b-1
CopyRun(a, b) == IF b <= a THEN <<>> ELSE [j \in 1..(b - a) |-> CopyEl(a + j - 1)]
InsRun(bytes) == [j \in 1..Len(bytes) |-> InsEl(bytes[j])]

(***************************************************************************)
(* xi_rope::multiset::Subset, as used by history.rs.                       *)
(***************************************************************************)
CountZeros(s) == Cardinality({j \in 1..Len(s) : s[j] = 0})
CountNonZeros(s) == Cardinality({j \in 1..Len(s) : s[j] # 0})

complement(s) == [j \in 1..Len(s) |-> IF s[j] = 0 THEN 1 ELSE 0]

union(a, b) == [j \in 1..Len(a) |-> a[j] + b[j]]

is_empty_subset(s) == \A j \in 1..Len(s) : s[j] = 0

\* Subset::transform(other, union): self indexes the string left after
\* `other` is deleted; the result indexes the string before that deletion.
RECURSIVE subset_transform(_, _, _)
subset_transform(self, other, un) ==
    IF other = <<>> THEN <<>>
    ELSE IF Head(other) > 0
         THEN <<IF un THEN Head(other) ELSE 0>> \o subset_transform(self, Tail(other), un)
         ELSE <<Head(self)>> \o subset_transform(Tail(self), Tail(other), un)

subset_transform_expand(self, other) == subset_transform(self, other, FALSE)
subset_transform_union(self, other) == subset_transform(self, other, TRUE)

\* the assertions of Subset::transform: self covers exactly the 0-regions of other
subset_transform_ok(self, other) == Len(self) = CountZeros(other)

RECURSIVE transform_shrink(_, _)
transform_shrink(self, other) ==
    IF self = <<>> THEN <<>>
    ELSE IF Head(other) = 0
         THEN <<Head(self)>> \o transform_shrink(Tail(self), Tail(other))
         ELSE transform_shrink(Tail(self), Tail(other))

\* Subset::delete_from: the elements of s at the positions the subset does not hold
RECURSIVE delete_from(_, _)
delete_from(sub, s) ==
    IF s = <<>> THEN <<>>
    ELSE IF Head(sub) = 0
         THEN <<Head(s)>> \o delete_from(Tail(sub), Tail(s))
         ELSE delete_from(Tail(sub), Tail(s))

(***************************************************************************)
(* Rope operations of byte_rope.rs that history.rs and buffer.rs call.     *)
(***************************************************************************)
without_subset(rope, sub) == delete_from(sub, rope)

\* slice_to_cow(lo..=hi): ChunkIter::next unwraps the cursor's leaf while the
\* cursor is before hi + 1, and the cursor has no leaf once it is at the end of
\* the rope, so a range that ends after the rope aborts
slice_ok(rope, lo, hi) == hi < Len(rope)
slice_to_cow(rope, lo, hi) == SubSeq(rope, lo + 1, hi + 1)

\* Delta::apply needs every copied offset inside the base rope
delta_applies(delta, rope) ==
    /\ delta.base_len = Len(rope)
    /\ \A j \in 1..Len(delta.els) :
          delta.els[j].k = "c" => delta.els[j].v < Len(rope)

apply_delta(rope, delta) ==
    [j \in 1..Len(delta.els) |->
        IF delta.els[j].k = "c" THEN rope[delta.els[j].v + 1] ELSE delta.els[j].v]

new_document_len(delta) == Len(delta.els)

(***************************************************************************)
(* xi_rope::delta: DeltaBuilder, factor, inserted_subset, synthesize,      *)
(* InsertDelta::transform_expand and Transformer.                          *)
(***************************************************************************)
\* An edit is one DeltaBuilder::replace call [s, e, ins]; delete(s..e) is a
\* replace with nothing.  The builder asserts start >= last_offset.
RECURSIVE builder_ok(_, _)
builder_ok(edits, last_offset) ==
    \/ edits = <<>>
    \/ /\ Head(edits).s >= last_offset
       /\ builder_ok(Tail(edits), Head(edits).e)

RECURSIVE builder_els(_, _, _)
builder_els(edits, last_offset, base_len) ==
    IF edits = <<>> THEN CopyRun(last_offset, base_len)
    ELSE CopyRun(last_offset, Head(edits).s) \o InsRun(Head(edits).ins)
            \o builder_els(Tail(edits), Head(edits).e, base_len)

build(base_len, edits) == [els |-> builder_els(edits, 0, base_len), base_len |-> base_len]

\* Delta::factor: (the insert-only delta, the subset of the base deleted)
RECURSIVE factor_ins(_, _, _, _)
factor_ins(els, b1, e1, base_len) ==
    IF els = <<>> THEN CopyRun(b1, base_len)
    ELSE IF Head(els).k = "c"
         THEN factor_ins(Tail(els), b1, Head(els).v + 1, base_len)
         ELSE CopyRun(b1, e1) \o <<Head(els)>> \o factor_ins(Tail(els), e1, e1, base_len)

factor_inserts(delta) ==
    [els |-> factor_ins(delta.els, 0, 0, delta.base_len), base_len |-> delta.base_len]

factor_deletions(delta) ==
    [j \in 1..delta.base_len |->
        IF \E q \in 1..Len(delta.els) : delta.els[q] = CopyEl(j - 1) THEN 0 ELSE 1]

inserted_subset(insdelta) ==
    [j \in 1..Len(insdelta.els) |-> IF insdelta.els[j].k = "i" THEN 1 ELSE 0]

\* Delta::synthesize(tombstones, from_dels, to_dels)
synthesize_el(tombstones, from_dels, u) ==
    IF from_dels[u] = 0
    THEN CopyEl(CountZeros(SubSeq(from_dels, 1, u - 1)))
    ELSE InsEl(tombstones[CountNonZeros(SubSeq(from_dels, 1, u - 1)) + 1])

RECURSIVE synthesize_els(_, _, _, _)
synthesize_els(tombstones, from_dels, to_dels, u) ==
    IF u > Len(to_dels) THEN <<>>
    ELSE (IF to_dels[u] = 0 THEN <<synthesize_el(tombstones, from_dels, u)>> ELSE <<>>)
            \o synthesize_els(tombstones, from_dels, to_dels, u + 1)

synthesize(tombstones, from_dels, to_dels) ==
    [els |-> synthesize_els(tombstones, from_dels, to_dels, 1),
     base_len |-> CountZeros(from_dels)]

\* first offset >= y that xform does not hold, or its length
RECURSIVE next_zero(_, _)
next_zero(xform, y) ==
    IF y >= Len(xform) \/ xform[y + 1] = 0 THEN Min2(y, Len(xform))
    ELSE next_zero(xform, y + 1)

\* InsertDelta::transform_expand(xform, after = true): the inserts land after
\* the material xform holds at the same place
RECURSIVE ins_transform_expand_els(_, _, _)
ins_transform_expand_els(els, xform, y) ==
    IF els = <<>> THEN CopyRun(y, Len(xform))
    ELSE LET nz == next_zero(xform, y) IN
         CopyRun(y, nz) \o
         (IF Head(els).k = "i"
          THEN <<Head(els)>> \o ins_transform_expand_els(Tail(els), xform, nz)
          ELSE <<CopyEl(nz)>> \o ins_transform_expand_els(Tail(els), xform, nz + 1))

ins_transform_expand(insdelta, xform) ==
    [els |-> ins_transform_expand_els(insdelta.els, xform, 0), base_len |-> Len(xform)]

\* Transformer::transform(ix, after = true)
RECURSIVE transform_from(_, _, _)
transform_from(els, ix, result) ==
    IF els = <<>> THEN result
    ELSE IF Head(els).k = "c" /\ ix <= Head(els).v THEN result
    ELSE transform_from(Tail(els), ix, result + 1)

transform(delta, ix) == transform_from(delta.els, ix, 0)

(***************************************************************************)
(* history.rs: Action                                                      *)
(***************************************************************************)
\* a variant that puts the deleted bytes back and keeps the inserted ones
invert_from_keeping_inserts(ins_subset, deletions, base_rope) ==
    LET deleted_now == without_subset(base_rope, complement(deletions))
        deletions_from_base == subset_transform_expand(deletions, ins_subset)
    IN synthesize(deleted_now, deletions_from_base, [j \in 1..Len(ins_subset) |-> 0])

invert_keeping_inserts(delta, base_rope) ==
    invert_from_keeping_inserts(inserted_subset(factor_inserts(delta)),
                                factor_deletions(delta), base_rope)

\* lines 17-27 of invert, on the two factors of the delta
invert_from(ins_subset, deletions, base_rope) ==
    LET deleted_now == without_subset(base_rope, complement(deletions))
        deletions_from_base == subset_transform_expand(deletions, ins_subset)
        deletions_from_inverted == ins_subset
    IN synthesize(deleted_now, deletions_from_base, deletions_from_inverted)

invert(delta, base_rope) ==
    invert_from(inserted_subset(factor_inserts(delta)), factor_deletions(delta), base_rope)

\* <<inserts, deletes, inserts_in_prefinal>>
\* lines 38-57, on the subsets of lines 33-37 and 53
subsets_in_union(inserts_in_mid_union, deletes_from_mid_union, new_inserts, pre_expand,
                 prefinal_insertion) ==
    LET new_deletes == IF is_empty_subset(new_inserts) THEN pre_expand
                       ELSE subset_transform_expand(pre_expand, new_inserts)
        rebased_deletes_from_union == subset_transform_expand(deletes_from_mid_union, new_inserts)
        deletes_from_union == union(rebased_deletes_from_union, new_deletes)
        rebased_inserts_in_union == subset_transform_expand(inserts_in_mid_union, new_inserts)
        inserts_in_union == union(rebased_inserts_in_union, new_inserts)
        inserts_in_mid_text == transform_shrink(inserts_in_mid_union, deletes_from_mid_union)
        inserts_in_prefinal == subset_transform_union(inserts_in_mid_text, prefinal_insertion)
    IN <<inserts_in_union, deletes_from_union, inserts_in_prefinal>>

\* lines 36-57, on the mid union of lines 33-34
subsets_from_mid_union(inserts_in_mid_union, deletes_from_mid_union, ins2, del2) ==
    subsets_in_union(inserts_in_mid_union, deletes_from_mid_union,
                     inserted_subset(ins_transform_expand(ins2, deletes_from_mid_union)),
                     subset_transform_expand(del2, deletes_from_mid_union),
                     inserted_subset(ins2))

\* lines 33-57, on the factors of the two deltas
subsets_from_factors(inserts_in_mid_union, del1, ins2, del2) ==
    subsets_from_mid_union(inserts_in_mid_union,
                           subset_transform_expand(del1, inserts_in_mid_union), ins2, del2)

subsets_for_chain(self, next) ==
    subsets_from_factors(inserted_subset(factor_inserts(self)), factor_deletions(self),
                         factor_inserts(next), factor_deletions(next))

\* the delta `next` must be built on the text `self` produces
chain_ok(self, after_self, next) ==
    /\ next.base_len = Len(after_self)
    /\ next.base_len = new_document_len(self)

\* a variant that forgets the second delta
chain_first_only(self, after_self, next) == self

\* lines 64-68 of chain, on after_next and the three subsets
chain_from(after_next, subs) ==
    LET tombstones == without_subset(after_next, complement(subs[3]))
    IN synthesize(tombstones, subs[1], subs[2])

chain(self, after_self, next) ==
    chain_from(apply_delta(after_self, factor_inserts(next)), subsets_for_chain(self, next))

(***************************************************************************)
(* selection.rs: SelRegion                                                 *)
(***************************************************************************)
\* stands for 2^64 in `x as usize` of a negative x (TLC's integers are 32-bit)
UsizeWrap == 1073741824
as_usize(x) == IF x < 0 THEN UsizeWrap + x ELSE x

\* the line width the view passes to every transition
BytesPerLine == 2

Directions == {"Up", "Down", "Left", "Right"}

new(caret, tail) == [caret |-> caret, tail |-> tail, main |-> FALSE]

max(r) == Max2(r.caret, r.tail)
min(r) == Min2(r.caret, r.tail)
len(r) == max(r) - min(r) + 1

with_direction(r, is_backward) ==
    IF is_backward THEN new(min(r), max(r)) ELSE new(max(r), min(r))

\* a variant that lets two regions share their boundary offset
overlaps_strictly(self, other) == max(self) > min(other)

overlaps(self, other) == max(self) >= min(other)

\* the arithmetic of simple_move and simple_extend: `as isize` reads a usize
\* in the upper half of its range as a negative number, saturating_mul stops
\* at the ends of the range, and a sum or difference that leaves the range
\* wraps (or aborts, in a build with overflow checks: move_overflows)
as_isize(x) == IF x >= UsizeWrap \div 2 THEN x - UsizeWrap ELSE x
wrap_isize(v) ==
    IF v >= UsizeWrap \div 2 THEN v - UsizeWrap
    ELSE IF v < 0 - UsizeWrap \div 2 THEN v + UsizeWrap ELSE v
saturating_mul(a, b) == Min2(UsizeWrap - 1, a * b)
isize_saturating_mul(a, b) ==
    Max2(0 - UsizeWrap \div 2, Min2(UsizeWrap \div 2 - 1, a * b))
wrapping_add(a, b) == IF a >= UsizeWrap - b THEN a - (UsizeWrap - b) ELSE a + b

\* the signed difference of Up and Left, before it wraps
isize_difference(old_caret, direction, bytes_per_line, count) ==
    as_isize(old_caret) -
        (IF direction = "Up"
         THEN isize_saturating_mul(as_isize(bytes_per_line), as_isize(count))
         ELSE as_isize(count))

move_caret(old_caret, direction, bytes_per_line, max_size, count) ==
    CASE direction = "Up" ->
            as_usize(Max2(0, wrap_isize(isize_difference(old_caret, direction,
                                                         bytes_per_line, count))))
      [] direction = "Down" ->
            Min2(max_size, wrapping_add(old_caret, saturating_mul(bytes_per_line, count)))
      [] direction = "Left" ->
            as_usize(Max2(0, wrap_isize(isize_difference(old_caret, direction,
                                                         bytes_per_line, count))))
      [] direction = "Right" -> Min2(max_size, wrapping_add(old_caret, count))

\* the sum or difference of move_caret leaves the range of its type
move_overflows(old_caret, direction, bytes_per_line, count) ==
    CASE direction = "Down" -> old_caret >= UsizeWrap - saturating_mul(bytes_per_line, count)
      [] direction = "Right" -> old_caret >= UsizeWrap - count
      [] OTHER ->
            wrap_isize(isize_difference(old_caret, direction, bytes_per_line, count))
                # isize_difference(old_caret, direction, bytes_per_line, count)

simple_move(r, direction, bytes_per_line, max_size, count) ==
    IF max_size = 0 THEN r
    ELSE LET caret_location == move_caret(r.caret, direction, bytes_per_line, max_size, count)
         IN new(caret_location, caret_location)

simple_extend(r, direction, bytes_per_line, max_size, count) ==
    IF max_size = 0 THEN r
    ELSE new(move_caret(r.caret, direction, bytes_per_line, max_size, count), r.tail)

jump_to(r, offset) == new(offset, offset)
extend_to(r, offset) == new(offset, r.tail)

boundary(caret, direction, bytes_per_line, max_size) ==
    CASE direction = "Up" -> 0
      [] direction = "Down" -> max_size - 1
      [] direction = "Left" -> caret - (caret % bytes_per_line)
      [] direction = "Right" ->
            Min2(caret + bytes_per_line - (caret % bytes_per_line) - 1, max_size - 1)

jump_to_boundary(r, direction, bytes_per_line, max_size) ==
    IF max_size = 0 THEN r
    ELSE LET caret_location == boundary(r.caret, direction, bytes_per_line, max_size)
         IN new(caret_location, caret_location)

extend_to_boundary(r, direction, bytes_per_line, max_size) ==
    IF max_size = 0 THEN r
    ELSE new(boundary(r.caret, direction, bytes_per_line, max_size), r.tail)

swap_caret(r) == new(r.tail, r.caret)
collapse(r) == new(r.caret, r.caret)
forward(r) == r.caret >= r.tail
backward(r) == r.caret <= r.tail
to_backward(r) == new(min(r), max(r))
to_forward(r) == new(max(r), min(r))

\* merge aborts on opposite directions, and on two cursors at different offsets
merge_ok(self, other) ==
    LET both_forward == forward(self) /\ forward(other)
        both_backward == backward(self) /\ backward(other)
    IN /\ both_forward \/ both_backward
       /\ (both_forward /\ both_backward) => self.caret = other.caret

merge(self, other) ==
    LET both_forward == forward(self) /\ forward(other)
        both_backward == backward(self) /\ backward(other)
        merged == IF both_forward /\ both_backward THEN self
                  ELSE IF both_forward
                       THEN new(Max2(self.caret, other.caret), Min2(self.tail, other.tail))
                       ELSE new(Min2(self.caret, other.caret), Max2(self.tail, other.tail))
    IN IF self.main \/ other.main THEN [merged EXCEPT !.main = TRUE] ELSE merged

inherit_direction(r, parent) == IF forward(parent) THEN to_forward(r) ELSE to_backward(r)

\* the pieces of r left and right of [start, end], as a sequence of 0, 1 or 2;
\* `right` tells whether the last piece is a right piece
split_at_region(r, start, end) ==
    IF start <= min(r)
    THEN IF end >= max(r) THEN [left |-> <<>>, right |-> <<>>]
         ELSE [left |-> <<>>, right |-> <<inherit_direction(new(end + 1, max(r)), r)>>]
    ELSE IF end >= max(r)
         THEN [left |-> <<inherit_direction(new(min(r), start - 1), r)>>, right |-> <<>>]
         ELSE [left |-> <<new(min(r), start - 1)>>, right |-> <<new(end + 1, max(r))>>]

(***************************************************************************)
(* selection.rs: Selection.  A selection is [regions, main_selection]; the *)
(* operations that can abort return [panic, regions, main_selection].      *)
(***************************************************************************)
default_region == [new(0, 0) EXCEPT !.main = TRUE]
default_selection == [regions |-> <<default_region>>, main_selection |-> 0]

clear(sel) == default_selection

len_bytes(sel) == SumSeq([j \in 1..Len(sel.regions) |-> len(sel.regions[j])])

retain(sel, index) ==
    [regions |-> <<[sel.regions[index + 1] EXCEPT !.main = TRUE]>>, main_selection |-> 0]

remove_at(s, index) == SubSeq(s, 1, index) \o SubSeq(s, index + 2, Len(s))

\* a remove that takes the main region whatever the index
remove_main_only(sel, index) ==
    IF Len(sel.regions) = 1 THEN sel
    ELSE LET rest == remove_at(sel.regions, sel.main_selection)
             ms == Min2(Len(rest) - 1, sel.main_selection)
         IN [regions |-> [rest EXCEPT ![ms + 1].main = TRUE], main_selection |-> ms]

remove(sel, index) ==
    IF Len(sel.regions) = 1 THEN sel
    ELSE LET rest == remove_at(sel.regions, index)
             ms == Min2(Len(rest) - 1, sel.main_selection)
         IN [regions |-> [rest EXCEPT ![ms + 1].main = TRUE], main_selection |-> ms]

select_all(sel, buf_size) ==
    IF buf_size = 0 THEN clear(sel)
    ELSE [regions |-> <<[caret |-> buf_size - 1, tail |-> 0, main |-> TRUE]>>,
          main_selection |-> 0]

main_region(sel) == sel.regions[sel.main_selection + 1]

\* the inner loop of map_selections: push or merge each new region
RECURSIVE push_regions(_, _)
push_regions(st, news) ==
    IF news = <<>> \/ st.panic THEN st
    ELSE LET nr == Head(news)
             out == st.regions
         IN IF out = <<>> \/ ~overlaps(out[Len(out)], nr)
            THEN push_regions([st EXCEPT !.regions = Append(out, nr)], Tail(news))
            ELSE IF merge_ok(out[Len(out)], nr)
                 THEN push_regions(
                        [st EXCEPT !.regions = [out EXCEPT ![Len(out)] = merge(out[Len(out)], nr)]],
                        Tail(news))
                 ELSE [st EXCEPT !.panic = TRUE]

\* the outer loop: outs[i + 1] is f(regions[i]); i is the 0-based index
RECURSIVE map_from(_, _, _, _)
map_from(sel, outs, i, st) ==
    IF i >= Len(sel.regions) \/ st.panic THEN st
    ELSE LET pushed == push_regions(st, outs[i + 1])
         IN IF pushed.panic THEN pushed
            ELSE IF i = sel.main_selection
                 THEN IF pushed.regions = <<>>
                      THEN [pushed EXCEPT !.panic = TRUE]
                      ELSE map_from(sel, outs, i + 1,
                             [pushed EXCEPT !.main_selection = Len(pushed.regions) - 1,
                                            !.regions[Len(pushed.regions)].main = TRUE])
                 ELSE map_from(sel, outs, i + 1, pushed)

map_selections(sel, outs) ==
    map_from(sel, outs, 0, [panic |-> FALSE, regions |-> <<>>, main_selection |-> 0])

\* map_selections with a function giving one region per region
map_each(sel, F(_)) ==
    map_selections(sel, [j \in 1..Len(sel.regions) |-> <<F(sel.regions[j])>>])

no_panic(sel) == [panic |-> FALSE, regions |-> sel.regions, main_selection |-> sel.main_selection]
sel_of(res) == [regions |-> res.regions, main_selection |-> res.main_selection]

(***************************************************************************)
(* buffer.rs: the DirtyBytes::ChangeInPlace lists of the selection         *)
(* operations.  An interval is half-open; a region becomes                 *)
(* min..=max, that is [min, max + 1).                                      *)
(***************************************************************************)
Interval(start, end) == [start |-> start, end |-> end]
interval_of(region) == Interval(min(region), max(region) + 1)
contains(iv, pos) == iv.start <= pos /\ pos < iv.end
interval_union(a, b) ==
    IF a.start >= a.end THEN b
    ELSE IF b.start >= b.end THEN a
    ELSE Interval(Min2(a.start, b.start), Max2(a.end, b.end))

\* by is the function of Buffer that returned the list
ChangeInPlace(by, intervals) == [kind |-> "ChangeInPlace", by |-> by, intervals |-> intervals]

\* the intervals pushed for the regions from j on: the old region, then
\* each region f returned for it
RECURSIVE pushed_ranges(_, _, _)
pushed_ranges(sel, outs, j) ==
    IF j > Len(sel.regions) THEN <<>>
    ELSE <<interval_of(sel.regions[j])>>
            \o [q \in 1..Len(outs[j]) |-> interval_of(outs[j][q])]
            \o pushed_ranges(sel, outs, j + 1)

\* sort_by on the start, stable
RECURSIVE sort_by_start(_)
sort_by_start(ranges) ==
    IF ranges = <<>> THEN <<>>
    ELSE LET sorted == sort_by_start(SubSeq(ranges, 1, Len(ranges) - 1))
             r == ranges[Len(ranges)]
             k == Cardinality({q \in 1..Len(sorted) : sorted[q].start <= r.start})
         IN SubSeq(sorted, 1, k) \o <<r>> \o SubSeq(sorted, k + 1, Len(sorted))

RECURSIVE disjoint_ranges(_, _, _)
disjoint_ranges(ranges, j, out) ==
    IF j > Len(ranges) THEN out
    ELSE IF out = <<>> THEN disjoint_ranges(ranges, j + 1, <<ranges[j]>>)
    ELSE IF contains(out[Len(out)], ranges[j].start)
    THEN disjoint_ranges(ranges, j + 1,
                         [out EXCEPT ![Len(out)] = interval_union(out[Len(out)], ranges[j])])
    ELSE disjoint_ranges(ranges, j + 1, Append(out, ranges[j]))

\* Buffer::map_selections: what it returns for the selection sel and the
\* answers outs of f
map_selections_dirty(sel, outs) ==
    ChangeInPlace("map_selections", disjoint_ranges(sort_by_start(pushed_ranges(sel, outs, 1)), 1, <<>>))

map_each_dirty(sel, F(_)) ==
    map_selections_dirty(sel, [j \in 1..Len(sel.regions) |-> <<F(sel.regions[j])>>])

switch_main_sel(by, before, after) ==
    ChangeInPlace(by, <<interval_of(main_region(before)), interval_of(main_region(after))>>)

modify_sels_in_place(by, before) ==
    ChangeInPlace(by, [j \in 1..Len(before.regions) |-> interval_of(before.regions[j])])

select_next(sel, count) ==
    LET n == Len(sel.regions)
        ms == (sel.main_selection + count) % n
    IN [regions |-> [[sel.regions EXCEPT ![sel.main_selection + 1].main = FALSE]
                        EXCEPT ![ms + 1].main = TRUE],
        main_selection |-> ms]

select_prev(sel, count) ==
    LET n == Len(sel.regions)
        ms == (sel.main_selection + n - (count % n)) % n
    IN [regions |-> [[sel.regions EXCEPT ![sel.main_selection + 1].main = FALSE]
                        EXCEPT ![ms + 1].main = TRUE],
        main_selection |-> ms]

transform_coord(delta, coord, max_len, offset) ==
    IF max_len = coord THEN as_usize(new_document_len(delta) + offset)
    ELSE Min2(new_document_len(delta), as_usize(transform(delta, coord) + offset))

sel_apply_delta_offset_carets(sel, delta, caret_offset, tail_offset, max_len) ==
    IF new_document_len(delta) = 0 THEN no_panic(clear(sel))
    ELSE LET F(region) == new(transform_coord(delta, region.caret, max_len, caret_offset),
                              transform_coord(delta, region.tail, max_len, tail_offset))
         IN map_each(sel, F)

\* a variant that leaves every caret one byte before where the edit puts it
sel_apply_delta_caret_back(sel, delta, max_len) ==
    sel_apply_delta_offset_carets(sel, delta, -1, 0, max_len)

sel_apply_delta(sel, delta, max_len) ==
    IF new_document_len(delta) = 0 THEN no_panic(clear(sel))
    ELSE LET F(region) == new(transform_coord(delta, region.caret, max_len, 0),
                              transform_coord(delta, region.tail, max_len, 0))
         IN map_each(sel, F)

(***************************************************************************)
(* operations.rs: the delta factories.  Each gives the builder calls it    *)
(* makes, one edit [s, e, ins] per call, in region order.                  *)
(***************************************************************************)
Edit(s, e, ins) == [s |-> s, e |-> e, ins |-> ins]

edits_of(sel, F(_)) == Flatten([j \in 1..Len(sel.regions) |-> F(sel.regions[j])])

deletion_edits(base, sel) ==
    LET F(region) == <<Edit(min(region), max(region) + 1, <<>>)>>
    IN edits_of(sel, F)

backspace_edits(base, sel) ==
    LET F(region) == IF region.caret = 0 THEN <<>>
                     ELSE <<Edit(region.caret - 1, region.caret, <<>>)>>
    IN edits_of(sel, F)

delete_cursor_edits(base, sel) ==
    LET F(region) == IF region.caret >= Min2(Len(base), region.caret + 1) THEN <<>>
                     ELSE <<Edit(region.caret, Min2(Len(base), region.caret + 1), <<>>)>>
    IN edits_of(sel, F)

insert_edits(base, sel, text) ==
    LET F(region) == <<Edit(region.caret, region.caret, text)>>
    IN edits_of(sel, F)

\* the variant that inserts the text in front of the caret's byte
change_edits_inserting(base, sel, text) ==
    LET F(region) == <<Edit(region.caret, region.caret, text)>>
    IN edits_of(sel, F)

change_edits(base, sel, text) ==
    LET F(region) == <<Edit(region.caret, region.caret + 1, text)>>
    IN edits_of(sel, F)

\* the bytes a paste inserts for one region: the register entry, count times
\* (the count reaches ops::paste as its fifth argument in normal_mode.rs)
repeated(bytes, count) == Flatten([j \in 1..count |-> bytes])

\* a variant that pastes the first entry of the register at every region
paste_edits_first_entry(base, sel, register_contents, after, count) ==
    [j \in 1..Len(sel.regions) |->
        LET insert_pos == IF after THEN Min2(Len(base), max(sel.regions[j]) + 1)
                          ELSE min(sel.regions[j])
        IN Edit(insert_pos, insert_pos, repeated(register_contents[1], count))]

paste_edits(base, sel, register_contents, after, count) ==
    [j \in 1..Len(sel.regions) |->
        LET insert_pos == IF after THEN Min2(Len(base), max(sel.regions[j]) + 1)
                          ELSE min(sel.regions[j])
        IN Edit(insert_pos, insert_pos,
                repeated(register_contents[Min2(j, Len(register_contents))], count))]

replace_edits(base, sel, ch) ==
    LET F(region) == <<Edit(min(region), max(region) + 1,
                            [j \in 1..(max(region) - min(region) + 1) |-> ch])>>
    IN edits_of(sel, F)

\* Interval::new(start, end) needs start <= end; the builder needs sorted calls
edits_ok(edits) ==
    /\ \A j \in 1..Len(edits) : edits[j].s <= edits[j].e
    /\ builder_ok(edits, 0)

\* what a factory returns: [panic, delta]
built(base, edits) ==
    IF edits_ok(edits) THEN [panic |-> FALSE, delta |-> build(Len(base), edits)]
    ELSE [panic |-> TRUE, delta |-> build(Len(base), <<>>)]

deletion(base, sel) == built(base, deletion_edits(base, sel))
backspace(base, sel) == built(base, backspace_edits(base, sel))
delete_cursor(base, sel) == built(base, delete_cursor_edits(base, sel))
insert(base, sel, text) == built(base, insert_edits(base, sel, text))
change(base, sel, text) == built(base, change_edits(base, sel, text))
paste(base, sel, register_contents, after, count) ==
    built(base, paste_edits(base, sel, register_contents, after, count))
replace(base, sel, ch) == built(base, replace_edits(base, sel, ch))

(***************************************************************************)
(* history.rs: History.  A history is [partial, undo, redo]; partial is a  *)
(* sequence of at most one entry, an entry is [delta, selection].          *)
(***************************************************************************)
Entry(delta, sel) == [delta |-> delta, selection |-> sel]

new_history == [partial |-> <<>>, undo |-> <<>>, redo |-> <<>>]

\* a variant that keeps the redo stack
perform_final_keeping_redo(h, current_rope, delta, sel) ==
    [h EXCEPT !.undo = Append(@, Entry(invert(delta, current_rope), sel))]

perform_final(h, current_rope, delta, sel) ==
    [h EXCEPT !.undo = Append(@, Entry(invert(delta, current_rope), sel)),
              !.redo = <<>>]

\* a variant that keeps only the inversion of the latest partial delta
perform_partial_latest(h, current_rope, delta, sel) ==
    [h EXCEPT !.partial = <<Entry(invert(delta, current_rope),
                                  IF h.partial = <<>> THEN sel ELSE h.partial[1].selection)>>]

\* lines 93-97 of perform_partial, on this_inversion
replace_partial(h, current_rope, this_inversion, sel) ==
    LET replaced == IF h.partial = <<>>
                    THEN Entry(this_inversion, sel)
                    ELSE Entry(chain(this_inversion, current_rope, h.partial[1].delta),
                               h.partial[1].selection)
    IN [h EXCEPT !.partial = <<replaced>>]

perform_partial(h, current_rope, delta, sel) ==
    replace_partial(h, current_rope, invert(delta, current_rope), sel)

\* a variant that pushes the partial entry twice
commit_partial_twice(h) ==
    IF h.partial # <<>>
    THEN [h EXCEPT !.undo = Append(Append(@, h.partial[1]), h.partial[1]),
                   !.redo = <<>>, !.partial = <<>>]
    ELSE h

\* a variant that pushes the partial entry and keeps it
commit_partial_keeping(h) ==
    IF h.partial # <<>>
    THEN [h EXCEPT !.undo = Append(@, h.partial[1]), !.redo = <<>>]
    ELSE h

commit_partial(h) ==
    IF h.partial # <<>>
    THEN [h EXCEPT !.undo = Append(@, h.partial[1]), !.redo = <<>>, !.partial = <<>>]
    ELSE h

\* History::undo / redo, when the stack is not empty: the history left
history_undo(h, current_rope, sel) ==
    LET action == h.undo[Len(h.undo)]
    IN [h EXCEPT !.undo = SubSeq(@, 1, Len(@) - 1),
                 !.redo = Append(@, Entry(invert(action.delta, current_rope), sel))]

history_redo(h, current_rope, sel) ==
    LET action == h.redo[Len(h.redo)]
    IN [h EXCEPT !.redo = SubSeq(@, 1, Len(@) - 1),
                 !.undo = Append(@, Entry(invert(action.delta, current_rope), sel))]

(***************************************************************************)
(* The state: the current buffer (buffer.rs: Buffer), the mode on top of   *)
(* the dispatcher, the info line of the last transition, whether the       *)
(* process has aborted, and the number of key events the event loop has    *)
(* read (keys).  obs is an observer of the history, defined below.  alg     *)
(* holds the inputs and results of the history operations when they are    *)
(* exercised on their own, at the end of the module.                       *)
(***************************************************************************)
VARIABLES data, selection, history, dirty, registers, mode, info, panicked, obs, keys, alg,
          buffers

vars == <<data, selection, history, dirty, registers, mode, info, panicked, obs, keys, alg,
          buffers>>
edvars == <<data, selection, history, dirty, registers, mode, info, panicked, obs, keys,
            buffers>>
bufvars == <<data, selection, history, dirty, registers>>

\* cmd_count.rs: State
CountNone == [some |-> FALSE, hex |-> FALSE, count |-> 0]
CountSome(hex, count) == [some |-> TRUE, hex |-> hex, count |-> count]

to_count(cs) == IF cs.some THEN cs.count ELSE 1

\* a mode is [name, count_state, extend, imode, hex, hex_half]; the fields a
\* mode does not have keep the values below.  hex_half is <<>> or <<byte>>.
NormalNew == [name |-> "Normal", count_state |-> CountNone, extend |-> FALSE,
              imode |-> "Insert", hex |-> FALSE, hex_half |-> <<>>]
NormalWith(cs) == [NormalNew EXCEPT !.count_state = cs]
JumpTo(extend) == [NormalNew EXCEPT !.name = "JumpTo", !.extend = extend]
SplitMode(cs) == [NormalNew EXCEPT !.name = "Split", !.count_state = cs]
ReplaceMode(hex, hex_half) ==
    [NormalNew EXCEPT !.name = "Replace", !.hex = hex, !.hex_half = hex_half]
InsertMode(imode, hex, hex_half) ==
    [NormalNew EXCEPT !.name = "Insert", !.imode = imode, !.hex = hex, !.hex_half = hex_half]

buf == [data |-> data, selection |-> selection, history |-> history, dirty |-> dirty,
        registers |-> registers]

(***************************************************************************)
(* buffer.rs: Buffers.  The list holds [path, buf] for every buffer; the   *)
(* current buffer lives in the editor variables above, and its place in    *)
(* the list keeps its path and a blank buf.  A path is a sequence of       *)
(* characters, NoPath is None.                                             *)
(***************************************************************************)
NoPath == <<>>
Paths == {<<"a">>, <<"b">>}
OpenedPath == <<"a">>

default_buffer == [data |-> <<>>, selection |-> default_selection, history |-> new_history,
                   dirty |-> FALSE, registers |-> <<>>]
from_data_and_path(rope, path) == [path |-> path, buf |-> [default_buffer EXCEPT !.data = rope]]

place(path) == [path |-> path, buf |-> default_buffer]
with_buffer(path) == [list |-> <<place(path)>>, cur_buf_index |-> 0]

\* the collection with the current buffer in its place
collection ==
    [list |-> [j \in 1..Len(buffers.list) |->
                    IF j = buffers.cur_buf_index + 1
                    THEN [path |-> buffers.list[j].path, buf |-> buf]
                    ELSE buffers.list[j]],
     cur_buf_index |-> buffers.cur_buf_index]

current(bs) == bs.list[bs.cur_buf_index + 1]

remove_nth(list, n) == [j \in 1..(Len(list) - 1) |-> IF j < n THEN list[j] ELSE list[j + 1]]

delete_current(bs) ==
    LET list == remove_nth(bs.list, bs.cur_buf_index + 1)
    IN [list |-> IF list = <<>> THEN <<[path |-> NoPath, buf |-> default_buffer]>> ELSE list,
        cur_buf_index |-> Max2(bs.cur_buf_index - 1, 0)]

\* switch_buffer: canonicalize or read may fail (io.ok is FALSE); the file
\* read for a path no buffer has holds io.content
switch_buffer(bs, filename, io) ==
    IF ~io.ok \/ filename = <<>> THEN [ok |-> FALSE, bs |-> bs]
    ELSE IF \E j \in 1..Len(bs.list) : bs.list[j].path = filename
    THEN [ok |-> TRUE,
          bs |-> [bs EXCEPT !.cur_buf_index =
                    (CHOOSE j \in 1..Len(bs.list) :
                        /\ bs.list[j].path = filename
                        /\ \A q \in 1..(j - 1) : bs.list[q].path # filename) - 1]]
    ELSE [ok |-> TRUE,
          bs |-> [list |-> Append(bs.list, from_data_and_path(io.content, filename)),
                  cur_buf_index |-> Len(bs.list)]]

update_path_if_missing(b, path) == IF b.path = NoPath THEN [b EXCEPT !.path = path] ELSE b

(***************************************************************************)
(* buffer.rs: Buffer.  The operations return [panic, buf].                 *)
(***************************************************************************)
apply_delta_to_buffer(b, delta, is_final) ==
    [b EXCEPT !.history = IF is_final
                          THEN perform_final(b.history, b.data, delta, b.selection)
                          ELSE perform_partial(b.history, b.data, delta, b.selection),
              !.data = apply_delta(b.data, delta),
              !.dirty = TRUE]

\* the four apply operations, on the result d = [panic, delta] of a factory
\* the buffer b1 with the selection res, or the abort of b
with_selection(b, b1, res) ==
    IF res.panic THEN [panic |-> TRUE, buf |-> b]
    ELSE [panic |-> FALSE, buf |-> [b1 EXCEPT !.selection = sel_of(res)]]

\* the selection of b1, the buffer after apply_delta_to_buffer, through the delta
apply_to_selection_offset_carets(b, b1, delta, caret_offset, tail_offset) ==
    with_selection(b, b1, sel_apply_delta_offset_carets(b1.selection, delta, caret_offset,
                                                        tail_offset, Len(b1.data)))

apply_to_selection(b, b1, delta) ==
    with_selection(b, b1, sel_apply_delta(b1.selection, delta, Len(b1.data)))

buffer_apply(b, d, is_final, caret_offset, tail_offset) ==
    IF d.panic \/ ~delta_applies(d.delta, b.data) THEN [panic |-> TRUE, buf |-> b]
    ELSE apply_to_selection_offset_carets(b, apply_delta_to_buffer(b, d.delta, is_final),
                                          d.delta, caret_offset, tail_offset)

buffer_apply_plain(b, d, is_final) ==
    IF d.panic \/ ~delta_applies(d.delta, b.data) THEN [panic |-> TRUE, buf |-> b]
    ELSE apply_to_selection(b, apply_delta_to_buffer(b, d.delta, is_final), d.delta)

buffer_apply_delta(b, d) == buffer_apply_plain(b, d, TRUE)

buffer_apply_delta_offset_carets(b, d, caret_offset, tail_offset) ==
    buffer_apply(b, d, TRUE, caret_offset, tail_offset)

buffer_apply_incomplete_delta(b, d) == buffer_apply_plain(b, d, FALSE)

buffer_apply_incomplete_delta_offset_carets(b, d, caret_offset, tail_offset) ==
    buffer_apply(b, d, FALSE, caret_offset, tail_offset)

commit_delta(b) == [b EXCEPT !.history = commit_partial(b.history)]

\* a variant of perform_undo that leaves the selection where it is
perform_undo_keeping_selection(b) ==
    IF b.history.undo = <<>> THEN [some |-> FALSE, buf |-> b]
    ELSE LET action == b.history.undo[Len(b.history.undo)]
         IN [some |-> TRUE,
             buf |-> [history |-> history_undo(b.history, b.data, b.selection),
                      selection |-> b.selection,
                      data |-> apply_delta(b.data, action.delta),
                      dirty |-> TRUE,
                      registers |-> b.registers]]

\* perform_undo / perform_redo: [some, buf]; some = FALSE is the None result
perform_undo(b) ==
    IF b.history.undo = <<>> THEN [some |-> FALSE, buf |-> b]
    ELSE LET action == b.history.undo[Len(b.history.undo)]
         IN [some |-> TRUE,
             buf |-> [history |-> history_undo(b.history, b.data, b.selection),
                      selection |-> action.selection,
                      data |-> apply_delta(b.data, action.delta),
                      dirty |-> TRUE,
                      registers |-> b.registers]]

perform_redo(b) ==
    IF b.history.redo = <<>> THEN [some |-> FALSE, buf |-> b]
    ELSE LET action == b.history.redo[Len(b.history.redo)]
         IN [some |-> TRUE,
             buf |-> [history |-> history_redo(b.history, b.data, b.selection),
                      selection |-> action.selection,
                      data |-> apply_delta(b.data, action.delta),
                      dirty |-> TRUE,
                      registers |-> b.registers]]

\* yank_selections: the register '"' gets the bytes of every region, or one
\* empty byte string per region when the buffer is empty.  registers is the
\* value of that register, <<>> while the map has no entry for it.
\* The result is [panic, buf].
yank_selections(b) ==
    IF b.data = <<>>
    THEN [panic |-> FALSE,
          buf |-> [b EXCEPT !.registers = [j \in 1..Len(b.selection.regions) |-> <<>>]]]
    ELSE IF \E j \in 1..Len(b.selection.regions) :
                ~slice_ok(b.data, min(b.selection.regions[j]), max(b.selection.regions[j]))
    THEN [panic |-> TRUE, buf |-> b]
    ELSE [panic |-> FALSE,
          buf |-> [b EXCEPT !.registers =
                    [j \in 1..Len(b.selection.regions) |->
                        slice_to_cow(b.data, min(b.selection.regions[j]),
                                     max(b.selection.regions[j]))]]]

buffer_map_selections(b, outs) == with_selection(b, b, map_selections(b.selection, outs))

buffer_map_each(b, F(_)) ==
    buffer_map_selections(b, [j \in 1..Len(b.selection.regions) |-> <<F(b.selection.regions[j])>>])

remove_selection(b, index) ==
    [b EXCEPT !.selection = remove(b.selection, index % Len(b.selection.regions))]
retain_selection(b, index) ==
    [b EXCEPT !.selection = retain(b.selection, index % Len(b.selection.regions))]

(***************************************************************************)
(* How a transition leaves the state.                                      *)
(***************************************************************************)
SetBuf(b) ==
    /\ data' = b.data
    /\ selection' = b.selection
    /\ history' = b.history
    /\ dirty' = b.dirty
    /\ registers' = b.registers

\* obs watches the last committed edit: the bytes and selection before it
\* (data0, sel0), the bytes after it (data1), whether it was a run of partial
\* edits, and how far a following u, U, u sequence has come.
ObsIdle == [phase |-> "idle", run |-> FALSE, data0 |-> <<>>, sel0 |-> default_selection,
            data1 |-> <<>>]

ObsAfter(kind, b0, b1) ==
    CASE kind = "final" ->
            [phase |-> "done", run |-> FALSE, data0 |-> b0.data, sel0 |-> b0.selection,
             data1 |-> b1.data]
      [] kind = "partial" ->
            IF b0.history.partial = <<>>
            THEN [phase |-> "run", run |-> TRUE, data0 |-> b0.data, sel0 |-> b0.selection,
                  data1 |-> <<>>]
            ELSE obs
      [] kind = "commit" ->
            IF b0.history.partial # <<>>
            THEN [obs EXCEPT !.phase = "done", !.data1 = b1.data]
            ELSE ObsIdle
      [] kind = "undo" ->
            IF obs.phase = "done" THEN [obs EXCEPT !.phase = "undone"]
            ELSE IF obs.phase = "redone" THEN [obs EXCEPT !.phase = "undone2"]
            ELSE ObsIdle
      [] kind = "redo" ->
            IF obs.phase = "undone" THEN [obs EXCEPT !.phase = "redone"] ELSE ObsIdle
      [] OTHER -> IF obs.phase = "run" THEN obs ELSE ObsIdle

\* alg while the editor runs
no_delta == [els |-> <<>>, base_len |-> 0]
new_buffer(rope) ==
    [data |-> rope, selection |-> default_selection, history |-> new_history, dirty |-> FALSE,
     registers |-> <<>>]
AlgIdle == [pc |-> "idle", base |-> <<>>, sel |-> default_selection, e1 |-> <<>>,
            d1 |-> no_delta, mid |-> <<>>, inverse |-> no_delta, restored |-> <<>>,
            d2 |-> no_delta, final |-> <<>>, chained |-> no_delta, chain_out |-> <<>>,
            run_buf |-> new_buffer(<<>>), one_buf |-> new_buffer(<<>>)]

\* the model follows the event loop for MaxKeys key events
InBudget == keys < MaxKeys

\* hex_view.rs: HexView::transition.  The transition ran buffer operation r;
\* an abort leaves the state as it was and ends the process.
Finish(r, new_mode, new_info, kind) ==
    IF r.panic
    THEN /\ panicked' = TRUE
         /\ UNCHANGED <<data, selection, history, dirty, registers, mode, info, obs, keys, alg,
                        buffers>>
    ELSE /\ SetBuf(r.buf)
         /\ mode' = new_mode
         /\ info' = new_info
         /\ obs' = ObsAfter(kind, buf, r.buf)
         /\ keys' = keys + 1
         /\ UNCHANGED <<panicked, alg, buffers>>

\* obs after a handler that returns a ChangeInPlace list
Emitted(dirty_bytes) == [phase |-> "emitted", run |-> FALSE, dirty_bytes |-> dirty_bytes]

\* Finish for a handler that returns dirty_bytes with its transition
Emit(r, new_mode, new_info, dirty_bytes) ==
    IF r.panic
    THEN /\ panicked' = TRUE
         /\ UNCHANGED <<data, selection, history, dirty, registers, mode, info, obs, keys, alg,
                        buffers>>
    ELSE /\ SetBuf(r.buf)
         /\ mode' = new_mode
         /\ info' = new_info
         /\ obs' = IF obs.phase = "run" THEN obs ELSE Emitted(dirty_bytes)
         /\ keys' = keys + 1
         /\ UNCHANGED <<panicked, alg, buffers>>

Done(b) == [panic |-> FALSE, buf |-> b]

\* the model keeps the buffer within MaxLen bytes and the undo stack within MaxUndo
\* the longest buffer an edit may produce: MaxLen, EditCap where the start
\* state is drawn for the editing operations (alg.pc = "edit")
EditCap == 5
LenCap == IF alg.pc = "edit" THEN EditCap ELSE MaxLen
CanGrow(k) == Len(data) + k * Len(selection.regions) <= LenCap
CanRecord == history.partial # <<>> \/ Len(history.undo) < MaxUndo

(***************************************************************************)
(* cmd_count.rs: State::transition.  A count key is [k, d].                *)
(***************************************************************************)
CountKeys == {[k |-> "AppendDigit", d |-> d] : d \in 0..15}
                \cup {[k |-> x, d |-> 0] : x \in {"CancelEntry", "SwitchHexEntry", "RemoveLast"}}

NotHandled == [handled |-> FALSE, state |-> CountNone]
Update(cs) == [handled |-> TRUE, state |-> cs]

\* the variant in which switching the base of a pending count drops its value
count_transition_switch_resets(cs, a) ==
    IF ~cs.some
    THEN CASE a.k = "AppendDigit" -> IF a.d > 9 THEN NotHandled ELSE Update(CountSome(FALSE, a.d))
           [] a.k = "SwitchHexEntry" -> Update(CountSome(TRUE, 0))
           [] OTHER -> NotHandled
    ELSE CASE a.k = "AppendDigit" ->
                IF cs.hex THEN Update(CountSome(TRUE, cs.count * 16 + a.d))
                ELSE IF a.d > 9 THEN NotHandled
                ELSE Update(CountSome(FALSE, cs.count * 10 + a.d))
           [] a.k = "RemoveLast" ->
                IF cs.hex
                THEN IF cs.count >= 16 THEN Update(CountSome(TRUE, cs.count \div 16))
                     ELSE Update(CountNone)
                ELSE IF cs.count >= 10 THEN Update(CountSome(FALSE, cs.count \div 10))
                     ELSE Update(CountNone)
           [] a.k = "CancelEntry" -> Update(CountNone)
           [] a.k = "SwitchHexEntry" -> Update(CountSome(~cs.hex, 0))

count_transition(cs, a) ==
    IF ~cs.some
    THEN CASE a.k = "AppendDigit" -> IF a.d > 9 THEN NotHandled ELSE Update(CountSome(FALSE, a.d))
           [] a.k = "SwitchHexEntry" -> Update(CountSome(TRUE, 0))
           [] OTHER -> NotHandled
    ELSE CASE a.k = "AppendDigit" ->
                IF cs.hex THEN Update(CountSome(TRUE, cs.count * 16 + a.d))
                ELSE IF a.d > 9 THEN NotHandled
                ELSE Update(CountSome(FALSE, cs.count * 10 + a.d))
           [] a.k = "RemoveLast" ->
                IF cs.hex
                THEN IF cs.count >= 16 THEN Update(CountSome(TRUE, cs.count \div 16))
                     ELSE Update(CountNone)
                ELSE IF cs.count >= 10 THEN Update(CountSome(FALSE, cs.count \div 10))
                     ELSE Update(CountNone)
           [] a.k = "CancelEntry" -> Update(CountNone)
           [] a.k = "SwitchHexEntry" -> Update(CountSome(~cs.hex, cs.count))

\* the keys a..f are digits while a hex count is being entered
HexDigitKey(cs) == cs.some /\ cs.hex

(***************************************************************************)
(* normal_mode.rs: Normal::transition, one action per key action.          *)
(***************************************************************************)
InNormal == mode.name = "Normal" /\ ~panicked /\ InBudget

NormalCount(a) ==
    /\ InNormal
    /\ LET t == count_transition(mode.count_state, a)
       IN /\ t.handled
          /\ t.state.count <= MaxCount
          /\ Finish(Done(buf), NormalWith(t.state), "", "other")

NormalJumpToMode ==
    /\ InNormal
    /\ IF ~mode.count_state.some
       THEN Finish(Done(buf), JumpTo(FALSE), "", "other")
       ELSE LET offset == mode.count_state.count
                F(region) == jump_to(region, offset)
            IN Finish(buffer_map_each(buf, F), NormalNew, "", "other")

NormalExtendToMode ==
    /\ InNormal
    /\ IF ~mode.count_state.some
       THEN Finish(Done(buf), JumpTo(TRUE), "", "other")
       ELSE LET offset == mode.count_state.count
                F(region) == extend_to(region, offset)
            IN Finish(buffer_map_each(buf, F), NormalNew, "", "other")

NormalSplitMode ==
    /\ InNormal
    /\ Finish(Done(buf), SplitMode(CountNone), "", "other")

NormalInsert(hex) ==
    /\ InNormal
    /\ LET F(region) == to_backward(region)
       IN Finish(buffer_map_each(buf, F), InsertMode("Insert", hex, <<>>), "", "other")

NormalAppend(hex) ==
    /\ InNormal
    /\ hex \/ ~HexDigitKey(mode.count_state)
    /\ LET max_size == Len(data)
           F(region) == simple_extend(to_forward(region), "Right", BytesPerLine, max_size, 1)
       IN Finish(buffer_map_each(buf, F), InsertMode("Append", hex, <<>>), "", "other")

\* a caret of a non-empty buffer b leaves the range of usize or isize when it
\* moves count steps: the process aborts if the build checks overflow
moves_overflow(b, direction, count) ==
    /\ b.data # <<>>
    /\ \E j \in 1..Len(b.selection.regions) :
          move_overflows(b.selection.regions[j].caret, direction, BytesPerLine, count)

Abort(b) == [panic |-> TRUE, buf |-> b]

NormalMove(direction) ==
    /\ InNormal
    /\ \E overflow_checks \in BOOLEAN :
        LET max_bytes == Len(data)
            F(region) == simple_move(region, direction, BytesPerLine, max_bytes,
                                     to_count(mode.count_state))
        IN Emit(IF overflow_checks
                      /\ moves_overflow(buf, direction, to_count(mode.count_state))
                THEN Abort(buf) ELSE buffer_map_each(buf, F),
                NormalNew, "", map_each_dirty(selection, F))

NormalExtend(direction) ==
    /\ InNormal
    /\ \E overflow_checks \in BOOLEAN :
        LET max_bytes == Len(data)
            F(region) == simple_extend(region, direction, BytesPerLine, max_bytes,
                                       to_count(mode.count_state))
        IN Emit(IF overflow_checks
                      /\ moves_overflow(buf, direction, to_count(mode.count_state))
                THEN Abort(buf) ELSE buffer_map_each(buf, F),
                NormalNew, "", map_each_dirty(selection, F))

NormalSwapCaret ==
    /\ InNormal
    /\ LET F(region) == swap_caret(region)
       IN Emit(buffer_map_each(buf, F), mode, "", map_each_dirty(selection, F))

NormalCollapseSelection ==
    /\ InNormal
    /\ LET F(region) == collapse(region)
       IN Emit(buffer_map_each(buf, F), mode, "", map_each_dirty(selection, F))

\* Delete and Change once the regions are yanked (y): the deletion of every region
delete_yanked(y) ==
    IF y.panic THEN y
    ELSE buffer_apply_delta(y.buf, deletion(y.buf.data, y.buf.selection))

NormalDelete ==
    /\ InNormal
    /\ ~HexDigitKey(mode.count_state)
    /\ IF data # <<>>
       THEN /\ Len(history.undo) < MaxUndo
            /\ Finish(delete_yanked(yank_selections(buf)), mode, "", "final")
       ELSE Finish(yank_selections(buf), mode, "", "other")

NormalChange(hex) ==
    /\ InNormal
    /\ hex \/ ~HexDigitKey(mode.count_state)
    /\ IF data # <<>>
       THEN /\ Len(history.undo) < MaxUndo
            /\ Finish(delete_yanked(yank_selections(buf)),
                      InsertMode("Insert", hex, <<>>), "", "final")
       ELSE Finish(yank_selections(buf), InsertMode("Insert", hex, <<>>), "", "other")

NormalYank ==
    /\ InNormal
    /\ Finish(yank_selections(buf), mode, "", "other")

\* the register '"', or one empty byte string when nothing was ever yanked
register_or_default(b) == IF b.registers = <<>> THEN <<<<>>>> ELSE b.registers

NormalPaste(after) ==
    /\ InNormal
    /\ Len(history.undo) < MaxUndo
    /\ to_count(mode.count_state) <= MaxCount
    /\ Finish(buffer_apply_delta(buf, paste(data, selection, register_or_default(buf), after,
                                            to_count(mode.count_state))),
              mode, "", "final")

NormalReplaceMode(hex) ==
    /\ InNormal
    /\ Finish(Done(buf), ReplaceMode(hex, <<>>), "", "other")

NormalRemoveMain ==
    /\ InNormal
    /\ IF mode.count_state.some /\ mode.count_state.count > 0
       THEN Emit(Done(remove_selection(buf, mode.count_state.count - 1)), NormalNew, "",
                 modify_sels_in_place("remove_selection", selection))
       ELSE Emit(Done(remove_selection(buf, selection.main_selection)), mode, "",
                 modify_sels_in_place("remove_selection", selection))

NormalRetainMain ==
    /\ InNormal
    /\ IF mode.count_state.some /\ mode.count_state.count > 0
       THEN Emit(Done(retain_selection(buf, mode.count_state.count - 1)), NormalNew, "",
                 modify_sels_in_place("retain_selection", selection))
       ELSE Emit(Done(retain_selection(buf, selection.main_selection)), mode, "",
                 modify_sels_in_place("retain_selection", selection))

NormalSelectNext ==
    /\ InNormal
    /\ LET after == select_next(selection, to_count(mode.count_state))
       IN Emit(Done([buf EXCEPT !.selection = after]), NormalNew, "",
               switch_main_sel("select_next", selection, after))

NormalSelectPrev ==
    /\ InNormal
    /\ LET after == select_prev(selection, to_count(mode.count_state))
       IN Emit(Done([buf EXCEPT !.selection = after]), NormalNew, "",
               switch_main_sel("select_prev", selection, after))

NormalSelectAll ==
    /\ InNormal
    /\ Finish(Done([buf EXCEPT !.selection = select_all(selection, Len(data))]), mode, "", "other")

\* map_or_else on the Option that perform_undo / perform_redo returns
map_or_else(r, nothing, kind) ==
    Finish(Done(r.buf), NormalNew, IF r.some THEN "" ELSE nothing, kind)

NormalUndo ==
    /\ InNormal
    /\ map_or_else(perform_undo(buf), "nothing left to undo", "undo")

\* a variant that says nothing when the redo stack is empty
NormalRedo_silent ==
    /\ InNormal
    /\ map_or_else(perform_redo(buf), "", "redo")

NormalRedo ==
    /\ InNormal
    /\ map_or_else(perform_redo(buf), "nothing left to redo", "redo")

(***************************************************************************)
(* modes/jumpto.rs: JumpTo::transition                                     *)
(***************************************************************************)
InJumpTo == mode.name = "JumpTo" /\ ~panicked /\ InBudget

JumpToDirection(direction) ==
    /\ InJumpTo
    /\ LET max_bytes == Len(data)
           E(region) == extend_to_boundary(region, direction, BytesPerLine, max_bytes)
           J(region) == jump_to_boundary(region, direction, BytesPerLine, max_bytes)
       IN IF mode.extend
          THEN Finish(buffer_map_each(buf, E), NormalNew, "", "other")
          ELSE Finish(buffer_map_each(buf, J), NormalNew, "", "other")

JumpToOther ==
    /\ InJumpTo
    /\ Finish(Done(buf), NormalNew, "", "other")

(***************************************************************************)
(* search_mode.rs: Pattern.  A pattern is a sequence of pieces, a match is *)
(* [start, end), end exclusive.  An all-literal pattern is searched as a   *)
(* byte substring, any other as the regular expression built from it, in   *)
(* which a wildcard is "." and matches every byte but a line feed.         *)
(***************************************************************************)
Literal(byte) == [wild |-> FALSE, byte |-> byte]
Wildcard == [wild |-> TRUE, byte |-> 0]
\* "." leaves out the line feed, byte 10
piece_matches(piece, byte) == IF piece.wild THEN byte # 10 ELSE byte = piece.byte

matches_at(rope, k, pattern) ==
    \A q \in 1..Len(pattern) : piece_matches(pattern[q], rope[k + q])

\* the leftmost non-overlapping matches in rope[base .. limit)
RECURSIVE find_matches(_, _, _, _)
find_matches(rope, base, limit, pattern) ==
    IF base + Len(pattern) > limit THEN <<>>
    ELSE IF matches_at(rope, base, pattern)
         THEN <<[start |-> base, end |-> base + Len(pattern)]>>
                  \o find_matches(rope, base + Len(pattern), limit, pattern)
         ELSE find_matches(rope, base + 1, limit, pattern)

\* every region is sliced as min..=max before it is searched
matches_ok(rope, sel) ==
    \A j \in 1..Len(sel.regions) : slice_ok(rope, min(sel.regions[j]), max(sel.regions[j]))

map_selections_to_matches(rope, sel, pattern) ==
    [j \in 1..Len(sel.regions) |->
        find_matches(rope, min(sel.regions[j]), max(sel.regions[j]) + 1, pattern)]

(***************************************************************************)
(* modes/split.rs: Split                                                   *)
(***************************************************************************)
InSplit == mode.name = "Split" /\ ~panicked /\ InBudget

Widths == {1, 2, 4, 8, 16}

\* the variant that splits at the first matched range only
split_pieces_first_only(base_region, ranges) ==
    IF ranges = <<>> THEN <<base_region>>
    ELSE LET sp == split_at_region(base_region, Head(ranges).start, Head(ranges).end - 1)
         IN sp.left \o sp.right

\* what is left of base_region around the matched ranges
RECURSIVE split_pieces(_, _)
split_pieces(base_region, ranges) ==
    IF ranges = <<>> THEN <<base_region>>
    ELSE LET sp == split_at_region(base_region, Head(ranges).start, Head(ranges).end - 1)
         IN sp.left \o (IF sp.right = <<>> THEN <<>>
                        ELSE split_pieces(sp.right[1], Tail(ranges)))

apply_search(b, pattern) ==
    IF pattern = <<>> THEN Done(b)
    ELSE IF ~matches_ok(b.data, b.selection) THEN Abort(b)
    ELSE LET matched_ranges == map_selections_to_matches(b.data, b.selection, pattern)
             matched_len == SumSeq([j \in 1..Len(matched_ranges) |->
                                        Len(pattern) * Len(matched_ranges[j])])
         IN IF matched_len = len_bytes(b.selection) THEN Done(b)
            ELSE buffer_map_selections(b,
                    [j \in 1..Len(b.selection.regions) |->
                        split_pieces(b.selection.regions[j], matched_ranges[j])])

\* (min..=max).step_by(step), each piece in the direction of the region
width_pieces(region, step) ==
    [q \in 1..((max(region) - min(region)) \div step + 1) |->
        LET pos == min(region) + (q - 1) * step
        IN with_direction(new(pos, Min2(max(region), pos + step - 1)), backward(region))]

SplitCount(a) ==
    /\ InSplit
    /\ LET t == count_transition(mode.count_state, a)
       IN /\ t.handled
          /\ t.state.count <= MaxCount
          /\ Finish(Done(buf), SplitMode(t.state), "", "other")

SplitWidth(width) ==
    /\ InSplit
    /\ width \in {1, 4} => ~HexDigitKey(mode.count_state)
    /\ LET count == to_count(mode.count_state)
       IN IF width * count = 0
          THEN Finish([panic |-> TRUE, buf |-> buf], NormalNew, "", "other")
          ELSE Finish(buffer_map_selections(buf,
                        [j \in 1..Len(selection.regions) |->
                            width_pieces(selection.regions[j], width * count)]),
                      NormalNew, "", "other")

SplitNull ==
    /\ InSplit
    /\ Finish(apply_search(buf, [j \in 1..to_count(mode.count_state) |-> Literal(0)]),
              NormalNew, "", "other")

SplitOther ==
    /\ InSplit
    /\ Finish(Done(buf), NormalNew, "", "other")

(***************************************************************************)
(* search_mode.rs: Search.  next names the mode that accepts the pattern.  *)
(***************************************************************************)
SearchMode(next, hex, hex_half, pattern, cursor) ==
    [name |-> "Search", next |-> next, hex |-> hex, hex_half |-> hex_half,
     pattern |-> pattern, cursor |-> cursor]

InSearch == mode.name = "Search" /\ ~panicked /\ InBudget

\* Pattern: the editing operations give [pieces, cursor]
insert_at(pieces, position, piece) ==
    SubSeq(pieces, 1, position) \o <<piece>> \o SubSeq(pieces, position + 1, Len(pieces))

insert_literal(pieces, position, literal) ==
    [pieces |-> insert_at(pieces, position, Literal(literal)), cursor |-> position + 1]

\* a variant that inserts the finished byte in front of the provisional one
insert_half_literal_inserting(pieces, position, literal) ==
    [pieces |-> insert_at(pieces, position, Literal(literal)), cursor |-> position + 1]

\* pieces[position] = Literal(literal): aborts beyond the last piece
insert_half_literal(pieces, position, literal) ==
    [pieces |-> [pieces EXCEPT ![position + 1] = Literal(literal)], cursor |-> position + 1]

insert_wildcard(pieces, position) ==
    [pieces |-> insert_at(pieces, position, Wildcard), cursor |-> position + 1]

pattern_remove(pieces, position) ==
    IF position < Len(pieces) THEN remove_at(pieces, position) ELSE pieces

\* Search::transition, an action of the key map: the cursor it starts from
\* (a hex insertion in progress is left as it is and skipped)
skipped_cursor == IF mode.hex_half # <<>> THEN mode.cursor + 1 ELSE mode.cursor

\* the Search mode it ends with
Searching(pieces, cursor, hex) ==
    Finish(Done(buf), SearchMode(mode.next, hex, <<>>, pieces, cursor), "", "other")

SearchInsertNull ==
    /\ InSearch
    /\ LET r == insert_literal(mode.pattern, skipped_cursor, 0)
       IN Searching(r.pieces, r.cursor, mode.hex)

SearchInsertWildcard ==
    /\ InSearch
    /\ LET r == insert_wildcard(mode.pattern, skipped_cursor)
       IN Searching(r.pieces, r.cursor, mode.hex)

SearchRemoveLast ==
    /\ InSearch
    /\ IF skipped_cursor # 0
       THEN Searching(pattern_remove(mode.pattern, skipped_cursor - 1), skipped_cursor - 1,
                      mode.hex)
       ELSE Finish(Done(buf), mode, "", "other")

SearchRemoveThis ==
    /\ InSearch
    /\ Searching(pattern_remove(mode.pattern, skipped_cursor), skipped_cursor, mode.hex)

SearchCursorLeft ==
    /\ InSearch
    /\ Searching(mode.pattern,
                 IF skipped_cursor # 0 THEN skipped_cursor - 1 ELSE skipped_cursor, mode.hex)

SearchCursorRight ==
    /\ InSearch
    /\ Searching(mode.pattern,
                 IF skipped_cursor < Len(mode.pattern) THEN skipped_cursor + 1
                 ELSE skipped_cursor, mode.hex)

SearchSwitchInputMode ==
    /\ InSearch
    /\ Searching(mode.pattern, skipped_cursor, ~mode.hex)

SearchCancel ==
    /\ InSearch
    /\ Finish(Done(buf), NormalNew, "", "other")

\* a character key without modifiers, ascii entry
SearchChar(ch) ==
    /\ InSearch
    /\ ~mode.hex
    /\ LET r == insert_literal(mode.pattern, mode.cursor, ch)
       IN Finish(Done(buf), SearchMode(mode.next, mode.hex, mode.hex_half, r.pieces, r.cursor),
                 "", "other")

\* a hex digit without modifiers, hex entry: half | hex_digit is their sum,
\* the low four bits of half being 0
SearchHexDigit(hex_digit) ==
    /\ InSearch
    /\ mode.hex
    /\ IF mode.hex_half # <<>>
       THEN IF mode.cursor >= Len(mode.pattern)
            THEN Finish(Abort(buf), mode, "", "other")
            ELSE LET r == insert_half_literal(mode.pattern, mode.cursor,
                                              mode.hex_half[1] + hex_digit)
                 IN Finish(Done(buf), SearchMode(mode.next, mode.hex, <<>>, r.pieces, r.cursor),
                           "", "other")
       ELSE LET r == insert_literal(mode.pattern, mode.cursor, (hex_digit * 16) % 256)
            IN Finish(Done(buf),
                      SearchMode(mode.next, mode.hex, <<(hex_digit * 16) % 256>>, r.pieces,
                                 mode.cursor),
                      "", "other")

\* any other character key in hex entry, and any key with a modifier that the
\* key map does not hold: not handled, the mode stays
SearchOther ==
    /\ InSearch
    /\ Finish(Done(buf), mode, "", "other")

\* normal_mode.rs: Action::CollapseMode; modes/split.rs: Action::Search
NormalCollapseMode(hex) ==
    /\ InNormal
    /\ Finish(Done(buf), SearchMode("Collapse", hex, <<>>, <<>>, 0), "", "other")

SplitSearch(hex) ==
    /\ InSplit
    /\ Finish(Done(buf), SearchMode("Split", hex, <<>>, <<>>, 0), "", "other")

\* modes/collapse.rs: Collapse::apply_search
collapse_pieces(base_region, ranges) ==
    [q \in 1..Len(ranges) |->
        inherit_direction(new(ranges[q].start, ranges[q].end - 1), base_region)]

collapse_apply_search(b, pattern) ==
    IF pattern = <<>> THEN Done(b)
    ELSE IF ~matches_ok(b.data, b.selection) THEN Abort(b)
    ELSE LET matched_ranges == map_selections_to_matches(b.data, b.selection, pattern)
             matched_len == SumSeq([j \in 1..Len(matched_ranges) |->
                                        Len(pattern) * Len(matched_ranges[j])])
         IN IF matched_len = 0 THEN Done(b)
            ELSE buffer_map_selections(b,
                    [j \in 1..Len(b.selection.regions) |->
                        collapse_pieces(b.selection.regions[j], matched_ranges[j])])

\* Action::Finish: the acceptor of the search gets the pattern
SearchFinish ==
    /\ InSearch
    /\ mode.next \in {"Split", "Collapse"}
    /\ Finish(IF mode.next = "Split" THEN apply_search(buf, mode.pattern)
              ELSE collapse_apply_search(buf, mode.pattern),
              NormalNew, "", "other")

(***************************************************************************)
(* modes/insert.rs: Insert                                                 *)
(***************************************************************************)
InInsert == mode.name = "Insert" /\ ~panicked /\ InBudget

new_state == [mode EXCEPT !.hex_half = <<>>]

InsertExit ==
    /\ InInsert
    /\ Finish(Done(commit_delta(buf)), NormalNew, "", "commit")

InsertNull ==
    /\ InInsert
    /\ CanGrow(1) /\ CanRecord
    /\ Finish(buffer_apply_incomplete_delta(buf, insert(data, selection, <<0>>)),
              new_state, "", "partial")

InsertSwitchInputMode ==
    /\ InInsert
    /\ Finish(Done(buf), InsertMode(mode.imode, ~mode.hex, <<>>), "", "other")

InsertRemoveLast ==
    /\ InInsert
    /\ CanRecord
    /\ IF data = <<>> THEN Finish(Done(buf), mode, "", "other")
       ELSE Finish(buffer_apply_incomplete_delta(
                        buf, IF mode.hex_half # <<>> THEN delete_cursor(data, selection)
                             ELSE backspace(data, selection)),
                   IF mode.hex_half # <<>> THEN new_state ELSE mode, "", "partial")

InsertRemoveThis ==
    /\ InInsert
    /\ CanRecord
    /\ IF data = <<>> THEN Finish(Done(buf), mode, "", "other")
       ELSE Finish(buffer_apply_incomplete_delta(buf, delete_cursor(data, selection)),
                   IF mode.hex_half # <<>> THEN new_state ELSE mode, "", "partial")

\* the variant that applies the first digit without the caret offset
transition_hex_insertion_caret_after(digit, b, hex_half) ==
    IF hex_half = <<>>
    THEN buffer_apply_incomplete_delta(b, insert(b.data, b.selection, <<digit * 16>>))
    ELSE buffer_apply_incomplete_delta(
            b, change(b.data, b.selection, <<hex_half[1] + digit>>))

\* transition_hex_insertion on the insertion modes Normal can enter
transition_hex_insertion(digit, b, hex_half) ==
    IF hex_half = <<>>
    THEN buffer_apply_incomplete_delta_offset_carets(
            b, insert(b.data, b.selection, <<digit * 16>>), -1, 0)
    ELSE buffer_apply_incomplete_delta(
            b, change(b.data, b.selection, <<hex_half[1] + digit>>))

\* Action::Move once a pending half byte is written (r1): the move, and one
\* step back to the left when the half byte made the carets advance
move_after(r1, direction, is_hex_half) ==
    LET max_bytes == Len(r1.buf.data)
        M(region) == simple_move(region, direction, BytesPerLine, max_bytes, 1)
        F(region) == IF is_hex_half
                     THEN simple_move(M(region), "Left", BytesPerLine, max_bytes, 1)
                     ELSE M(region)
    IN IF r1.panic THEN r1 ELSE buffer_map_each(r1.buf, F)

InsertMove(direction) ==
    /\ InInsert
    /\ mode.hex_half # <<>> => CanRecord
    /\ Finish(move_after(IF mode.hex_half # <<>>
                         THEN transition_hex_insertion(0, buf, mode.hex_half)
                         ELSE Done(buf),
                         direction, mode.hex_half # <<>>),
              InsertMode(mode.imode, mode.hex, <<>>), "",
              IF mode.hex_half # <<>> THEN "partial" ELSE "other")

\* transition_ascii_insertion: a typed character of one byte
InsertChar(key) ==
    /\ InInsert
    /\ ~mode.hex
    /\ CanGrow(1) /\ CanRecord
    /\ Finish(buffer_apply_incomplete_delta(buf, insert(data, selection, <<key>>)),
              mode, "", "partial")

InsertHexDigit(digit) ==
    /\ InInsert
    /\ mode.hex
    /\ CanRecord
    /\ mode.hex_half = <<>> => CanGrow(1)
    /\ Finish(transition_hex_insertion(digit, buf, mode.hex_half),
              InsertMode(mode.imode, TRUE,
                         IF mode.hex_half = <<>> THEN <<digit * 16>> ELSE <<>>),
              "", "partial")

(***************************************************************************)
(* replace_mode.rs: Replace                                                *)
(***************************************************************************)
InReplace == mode.name = "Replace" /\ ~panicked /\ InBudget

\* ctrl-n: every region is overwritten with zero bytes, back to Normal
ReplaceNull ==
    /\ InReplace
    /\ Len(history.undo) < MaxUndo
    /\ Finish(buffer_apply_delta(buf, replace(data, selection, 0)), NormalNew, "", "final")

\* an arrow key: no move while half a hex byte is pending
ReplaceMove(direction) ==
    /\ InReplace
    /\ LET max_bytes == Len(data)
           F(region) == simple_move(region, direction, BytesPerLine, max_bytes, 1)
       IN Finish(IF mode.hex_half = <<>> THEN buffer_map_each(buf, F) ELSE Done(buf),
                 mode, "", "other")

\* a character without Ctrl or Alt in ASCII entry
ReplaceChar(key) ==
    /\ InReplace
    /\ ~mode.hex
    /\ Len(history.undo) < MaxUndo
    /\ Finish(buffer_apply_delta(buf, replace(data, selection, key)), mode, "", "final")

\* a hex digit in hex entry: the high half, then the low half and the replace
ReplaceHexDigit(digit) ==
    /\ InReplace
    /\ mode.hex
    /\ mode.hex_half # <<>> => Len(history.undo) < MaxUndo
    /\ Finish(IF mode.hex_half = <<>> THEN Done(buf)
              ELSE buffer_apply_delta(buf, replace(data, selection, digit + mode.hex_half[1])),
              ReplaceMode(TRUE, IF mode.hex_half = <<>> THEN <<digit * 16>> ELSE <<>>),
              "", IF mode.hex_half = <<>> THEN "other" ELSE "final")

\* a character with Ctrl or Alt, a character that is no hex digit in hex entry,
\* or any other key
ReplaceOther ==
    /\ InReplace
    /\ Finish(Done(buf), NormalNew, "", "other")

(***************************************************************************)
(* The editor: a buffer loaded from a file, the dispatcher in Normal mode. *)
(***************************************************************************)
Init ==
    /\ data \in SeqsUpTo(Byte, MaxLen)
    /\ selection = default_selection
    /\ history = new_history
    /\ dirty = FALSE
    /\ registers = <<>>
    /\ mode = NormalNew
    /\ info = ""
    /\ panicked = FALSE
    /\ buffers = with_buffer(OpenedPath)
    /\ obs = ObsIdle
    /\ keys = 0
    /\ alg = AlgIdle

Next ==
    \/ \E a \in CountKeys : NormalCount(a)
    \/ NormalJumpToMode
    \/ NormalExtendToMode
    \/ NormalSplitMode
    \/ \E hex \in BOOLEAN : NormalInsert(hex)
    \/ \E hex \in BOOLEAN : NormalAppend(hex)
    \/ \E direction \in Directions : NormalMove(direction)
    \/ \E direction \in Directions : NormalExtend(direction)
    \/ NormalSwapCaret
    \/ NormalCollapseSelection
    \/ NormalDelete
    \/ \E hex \in BOOLEAN : NormalChange(hex)
    \/ NormalRemoveMain
    \/ NormalRetainMain
    \/ NormalSelectNext
    \/ NormalSelectPrev
    \/ NormalSelectAll
    \/ NormalUndo
    \/ NormalRedo
    \/ \E direction \in Directions : JumpToDirection(direction)
    \/ JumpToOther
    \/ \E a \in CountKeys : SplitCount(a)
    \/ \E width \in Widths : SplitWidth(width)
    \/ SplitNull
    \/ SplitOther
    \/ InsertExit
    \/ InsertNull
    \/ InsertSwitchInputMode
    \/ InsertRemoveLast
    \/ InsertRemoveThis
    \/ \E direction \in Directions : InsertMove(direction)
    \/ \E key \in Byte : InsertChar(key)
    \/ \E digit \in HexDigits : InsertHexDigit(digit)

Spec == Init /\ [][Next]_vars

(***************************************************************************)
(* history.rs and buffer.rs on their own: a rope `base`, a delta built on  *)
(* it by DeltaBuilder calls, and a second delta built on the result.       *)
(***************************************************************************)
\* The operations move bytes by their offsets and never read them, so the
\* ropes drawn hold the distinct bytes 1, 2, .. and every inserted byte is 0:
\* any other rope is one of these with its bytes renamed.
AlgBases == {[j \in 1..n |-> j] : n \in 0..MaxBase}

\* the builder calls of one delta on a rope of n bytes: at most MaxEdits
\* replace calls, sorted, each deleting or inserting something
OneEdit(n) ==
    {e \in [s : 0..n, e : 0..n, ins : SeqsUpTo({0}, MaxIns)] :
        e.s <= e.e /\ (e.s < e.e \/ e.ins # <<>>)}

EditLists(n, k) == {es \in SeqsUpTo(OneEdit(n), k) : builder_ok(es, 0)}

AlgSelections(rope) == {default_selection, select_all(default_selection, Len(rope))}

InitAlg ==
    /\ data = <<>>
    /\ selection = default_selection
    /\ history = new_history
    /\ dirty = FALSE
    /\ registers = <<>>
    /\ mode = NormalNew
    /\ info = ""
    /\ panicked = FALSE
    /\ buffers = with_buffer(OpenedPath)
    /\ obs = ObsIdle
    /\ keys = 0
    /\ \E base \in AlgBases :
       \E e1 \in EditLists(Len(base), MaxEdits) :
       \E sel \in AlgSelections(base) :
          alg = [AlgIdle EXCEPT !.pc = "drawn", !.base = base, !.e1 = e1, !.sel = sel]

\* Action(d1).invert(base), applied to what d1 makes of base
AlgInvert ==
    /\ alg.pc = "drawn"
    /\ LET d1 == build(Len(alg.base), alg.e1)
           mid == apply_delta(alg.base, d1)
           inverse == invert(d1, alg.base)
       IN alg' = [alg EXCEPT !.pc = "inverted", !.d1 = d1, !.mid = mid, !.inverse = inverse,
                             !.restored = apply_delta(mid, inverse)]
    /\ UNCHANGED edvars

\* Action(d1).chain(mid, d2) for a second delta built on mid
AlgChain ==
    /\ alg.pc = "inverted"
    /\ \E e2 \in EditLists(Len(alg.mid), MaxEdits) :
         LET d2 == build(Len(alg.mid), e2)
             chained == chain(alg.d1, alg.mid, d2)
         IN alg' = [alg EXCEPT !.pc = "chained", !.d2 = d2,
                               !.final = apply_delta(alg.mid, d2),
                               !.chained = chained,
                               !.chain_out = apply_delta(alg.base, chained)]
    /\ UNCHANGED edvars

\* the delta that copies and inserts what d2 makes of the result of d1
compose(d1, d2) ==
    [els |-> [j \in 1..Len(d2.els) |->
                IF d2.els[j].k = "c" THEN d1.els[d2.els[j].v + 1] ELSE d2.els[j]],
     base_len |-> d1.base_len]

\* apply_incomplete_delta(d1); apply_incomplete_delta(d2); commit_delta() on one
\* buffer, apply_delta(compose(d1, d2)) on another, both holding base and sel
Coalesced(r1, r2, one) ==
    /\ ~r1.panic /\ ~r2.panic /\ ~one.panic
    /\ alg' = [alg EXCEPT !.pc = "coalesced", !.run_buf = commit_delta(r2.buf),
                          !.one_buf = one.buf]

CoalesceAfter(b0, r1) ==
    Coalesced(r1,
              buffer_apply_incomplete_delta(r1.buf, [panic |-> FALSE, delta |-> alg.d2]),
              buffer_apply_delta(b0, [panic |-> FALSE, delta |-> compose(alg.d1, alg.d2)]))

CoalesceOn(b0) ==
    CoalesceAfter(b0, buffer_apply_incomplete_delta(b0, [panic |-> FALSE, delta |-> alg.d1]))

AlgCoalesce ==
    /\ alg.pc = "chained"
    /\ CoalesceOn([new_buffer(alg.base) EXCEPT !.selection = alg.sel])
    /\ UNCHANGED edvars

NextAlg == AlgInvert \/ AlgChain \/ AlgCoalesce

SpecAlg == InitAlg /\ [][NextAlg]_vars

(***************************************************************************)
(* The editing keys on their own: the editor with EditKeys key events to   *)
(* go, on a buffer, a selection, a register and a mode it can have reached.*)
(***************************************************************************)
EditLen == 3
EditKeys == 2

\* the bytes of the buffer differ from each other and from every typed byte
EditBase(n) == [j \in 1..n |-> MaxByte + j]

\* one or two regions inside a buffer of n bytes, sorted and disjoint, one of
\* them the main region
EditRegions(n) == [caret : 0..n, tail : 0..n, main : {FALSE}]

EditRegionLists(n) ==
    {rs \in SeqsUpTo(EditRegions(n), 2) :
        /\ rs # <<>>
        /\ Len(rs) = 2 => max(rs[1]) < min(rs[2])}

EditSelections(n) ==
    UNION {{[regions |-> [rs EXCEPT ![m + 1].main = TRUE], main_selection |-> m] :
                m \in 0..(Len(rs) - 1)} : rs \in EditRegionLists(n)}

EditRegisters == {<<>>, <<<<0>>>>, <<<<0>>, <<1>>>>, <<<<0, 1>>, <<>>>>}

\* no count, a small count, and the largest count there is (x and f, f, ..)
EditCounts ==
    {CountNone} \cup {CountSome(FALSE, c) : c \in 1..MaxCount}
        \cup {CountSome(TRUE, UsizeWrap - 1)}

EditModes ==
    {NormalWith(cs) : cs \in EditCounts}
        \cup {ReplaceMode(hex, <<>>) : hex \in BOOLEAN}
        \cup {InsertMode(imode, hex, <<>>) : imode \in {"Insert", "Append"}, hex \in BOOLEAN}

InitEdit ==
    /\ \E n \in 0..EditLen :
          /\ data = EditBase(n)
          /\ selection \in EditSelections(n)
    /\ history = new_history
    /\ dirty = FALSE
    /\ registers \in EditRegisters
    /\ mode \in EditModes
    /\ mode.name = "Insert" =>
            \A j \in 1..Len(selection.regions) :
                IF mode.imode = "Insert" THEN backward(selection.regions[j])
                ELSE forward(selection.regions[j])
    /\ info = ""
    /\ panicked = FALSE
    /\ buffers = with_buffer(OpenedPath)
    /\ obs = ObsIdle
    /\ keys = MaxKeys - EditKeys
    /\ alg = [AlgIdle EXCEPT !.pc = "edit"]

NextEdit ==
    \/ \E direction \in Directions : NormalMove(direction)
    \/ \E direction \in Directions : NormalExtend(direction)
    \/ NormalYank
    \/ \E after \in BOOLEAN : NormalPaste(after)
    \/ \E hex \in BOOLEAN : NormalReplaceMode(hex)
    \/ ReplaceNull
    \/ \E direction \in Directions : ReplaceMove(direction)
    \/ \E key \in Byte : ReplaceChar(key)
    \/ \E digit \in HexDigits : ReplaceHexDigit(digit)
    \/ ReplaceOther
    \/ InsertNull
    \/ \E key \in Byte : InsertChar(key)
    \/ \E digit \in HexDigits : InsertHexDigit(digit)
    \/ InsertRemoveLast
    \/ InsertRemoveThis
    \/ InsertExit

SpecEdit == InitEdit /\ [][NextEdit]_vars

(***************************************************************************)
(* The change command on its own: c, typed characters and Esc on a buffer  *)
(* and a selection the editor can have reached.  alg keeps the two.        *)
(***************************************************************************)
ChangeKeys == 4

InitChange ==
    /\ \E n \in 0..MaxLen :
          /\ data = EditBase(n)
          /\ selection \in EditSelections(n)
    /\ history = new_history
    /\ dirty = FALSE
    /\ registers = <<>>
    /\ mode = NormalNew
    /\ info = ""
    /\ panicked = FALSE
    /\ buffers = with_buffer(OpenedPath)
    /\ obs = ObsIdle
    /\ keys = MaxKeys - ChangeKeys
    /\ alg = [AlgIdle EXCEPT !.pc = "change", !.base = data, !.sel = selection]

NextChange ==
    \/ \E hex \in BOOLEAN : NormalChange(hex)
    \/ \E key \in Byte : InsertChar(key)
    \/ InsertExit

SpecChange == InitChange /\ [][NextChange]_vars

(***************************************************************************)
(* Properties of the selection.                                            *)
(***************************************************************************)
SortedDisjoint(sel) ==
    \A i \in 1..(Len(sel.regions) - 1) : max(sel.regions[i]) < min(sel.regions[i + 1])

ExactlyOneMain(sel) ==
    /\ sel.main_selection < Len(sel.regions)
    /\ \A j \in 1..Len(sel.regions) : sel.regions[j].main <=> (j = sel.main_selection + 1)

\* C2: after any sequence of selection operations (map_selections, retain,
\* remove(i), select_next, select_prev, select_all, apply_delta) exactly one
\* region has main = true, it is the region at main_selection, and
\* main_selection is less than the number of regions.
C2_ExactlyOneMain == ExactlyOneMain(selection)

BoundedCarets(sel, rope) ==
    \A j \in 1..Len(sel.regions) :
        /\ 0 <= sel.regions[j].caret /\ sel.regions[j].caret <= Len(rope)
        /\ 0 <= sel.regions[j].tail /\ sel.regions[j].tail <= Len(rope)

\* C3: in every reachable state every region has 0 <= caret <= data.len() and
\* 0 <= tail <= data.len(), after every Normal-mode action with any count
\* prefix, after every edit and after undo and redo.
C3_BoundedCarets == BoundedCarets(selection, data)

(***************************************************************************)
(* Properties of the history operations.                                   *)
(***************************************************************************)
\* C4: for every delta built on a rope `base` (deletes, inserts, replaces and
\* several ranges at once), applying Action(delta).invert(base) to what the
\* delta makes of base gives back exactly base.
C4_InvertRoundTrip ==
    alg.pc \in {"inverted", "chained", "coalesced"} => alg.restored = alg.base

\* a delta of two builder calls that deletes and inserts has been inverted
C4_Witness ==
    /\ alg.pc = "inverted"
    /\ Len(alg.e1) = 2
    /\ \E j \in 1..2 : alg.e1[j].s < alg.e1[j].e
    /\ \E j \in 1..2 : alg.e1[j].ins # <<>>
    /\ alg.mid # alg.base

\* C6: for consecutive deltas d1: base -> mid and d2: mid -> final, the delta
\* Action(d1).chain(mid, d2) is a delta on base, and applying it to base
\* gives final.
C6_ChainApplies ==
    alg.pc \in {"chained", "coalesced"} =>
        /\ alg.chained.base_len = Len(alg.base)
        /\ alg.chain_out = alg.final

\* a delta that deletes has been chained with one that inserts
C6_Witness ==
    /\ alg.pc = "chained"
    /\ Len(alg.mid) < Len(alg.base)
    /\ Len(alg.final) > Len(alg.mid)
    /\ alg.final # alg.base

\* C7: apply_incomplete_delta(d1), apply_incomplete_delta(d2) and commit leave
\* the same rope and the same single undo entry (inverse delta and selection
\* snapshot) as apply_delta of the composition of d1 and d2 from the same
\* starting state.
C7_PartialCoalesce ==
    alg.pc = "coalesced" =>
        /\ alg.run_buf.data = alg.one_buf.data
        /\ alg.run_buf.history.undo = alg.one_buf.history.undo
        /\ Len(alg.run_buf.history.undo) = 1
        /\ alg.run_buf.history.partial = <<>>

\* two partial deltas that both change the rope have been committed
C7_Witness ==
    /\ alg.pc = "coalesced"
    /\ alg.mid # alg.base
    /\ alg.final # alg.mid
    /\ alg.run_buf.data # alg.base

(***************************************************************************)
(* Properties of undo and redo in the editor.                              *)
(***************************************************************************)
\* C5: for a committed edit applied to a buffer in state (data0, sel0), the
\* sequence do, undo, redo, undo leaves data = data0 and selection = sel0, and
\* the redo in the middle reproduces the bytes the edit produced.
C5_UndoRedoUndo ==
    /\ (~obs.run /\ obs.phase \in {"undone", "undone2"}) =>
            (data = obs.data0 /\ selection = obs.sel0)
    /\ (~obs.run /\ obs.phase = "redone") => data = obs.data1

\* a final delta has been done, undone, redone and undone again
C5_Witness ==
    /\ ~obs.run
    /\ obs.phase = "undone2"
    /\ obs.data1 # obs.data0
    /\ obs.sel0 # default_selection

\* the key event ends an Insert-mode run that holds partial edits
RunCommitted == InsertExit /\ history.partial # <<>>

\* C8: an Insert-mode run of one or more edits ended by Esc adds exactly one
\* entry to the undo stack; one u then restores the bytes and the selection of
\* the moment the first edit of the run was applied, and one U reapplies the
\* whole run.
C8_RunIsOneEntry ==
    [][/\ RunCommitted => Len(history'.undo) = Len(history.undo) + 1
       /\ (obs'.run /\ obs'.phase = "undone") =>
                (data' = obs'.data0 /\ selection' = obs'.sel0)
       /\ (obs'.run /\ obs'.phase = "redone") => data' = obs'.data1]_vars

\* a run that changed the bytes has been committed, undone and redone
C8_Witness ==
    /\ obs.run
    /\ obs.phase = "redone"
    /\ obs.data1 # obs.data0

\* the key event commits an edit: a final delta, or a run of partial edits
EditCommitted ==
    /\ ~panicked'
    /\ \/ NormalDelete /\ data # <<>>
       \/ (\E hex \in BOOLEAN : NormalChange(hex)) /\ data # <<>>
       \/ RunCommitted

\* C9: after every committed edit (a final delta, or a non-empty partial run
\* that is committed) the redo stack is empty and the undo stack has grown by
\* exactly one entry; committing when no partial edit exists changes neither
\* stack.
C9_CommitGrowsUndo ==
    [][/\ EditCommitted =>
            (history'.redo = <<>> /\ Len(history'.undo) = Len(history.undo) + 1)
       /\ (InsertExit /\ history.partial = <<>>) =>
            (history'.undo = history.undo /\ history'.redo = history.redo)]_vars

\* a second edit has been committed on top of the first
C9_Witness ==
    /\ obs.phase = "done"
    /\ Len(history.undo) = 2
    /\ history.redo = <<>>

\* C10: u with an empty undo stack (U with an empty redo stack) gets None from
\* perform_undo (perform_redo), leaves the bytes, the selection, the dirty flag
\* and both history stacks as they were, and the dispatcher stays in Normal
\* with the info "nothing left to undo" ("nothing left to redo").
C10_NothingLeft ==
    [][/\ (NormalUndo /\ history.undo = <<>>) =>
            /\ ~perform_undo(buf).some
            /\ UNCHANGED <<data, selection, dirty, history>>
            /\ mode' = NormalNew
            /\ info' = "nothing left to undo"
       /\ (NormalRedo /\ history.redo = <<>>) =>
            /\ ~perform_redo(buf).some
            /\ UNCHANGED <<data, selection, dirty, history>>
            /\ mode' = NormalNew
            /\ info' = "nothing left to redo"]_vars

\* U has met an empty redo stack in an edited buffer
C10_Witness ==
    /\ info = "nothing left to redo"
    /\ history.undo # <<>>
    /\ dirty

(***************************************************************************)
(* modes/command.rs: the command line.  A command is a sequence of         *)
(* characters; Enter splits it at the first space into a name and a file   *)
(* name and runs the handler of the name on the buffer collection.  The    *)
(* file system answers through io: io.ok says whether canonicalize and     *)
(* read succeed, io.content is what read returns, io.unwritable holds the  *)
(* paths whose write fails.                                                *)
(***************************************************************************)
CommandMode(command, cursor) == [name |-> "Command", command |-> command, cursor |-> cursor]
QuittingMode == [name |-> "Quitting"]
InCommand == mode.name = "Command" /\ ~panicked /\ InBudget

Answer(bs, new_mode, new_info) == [bs |-> bs, mode |-> new_mode, info |-> new_info]

quit_always(bs) == Answer(bs, QuittingMode, "")

quit(bs) ==
    IF \E j \in 1..Len(bs.list) : bs.list[j].buf.dirty /\ bs.list[j].path # NoPath
    THEN Answer(bs, NormalNew, "unsaved changes! Run :wq or :q! instead.")
    ELSE Answer(bs, QuittingMode, "")

force_quit(bs) == Answer(bs, QuittingMode, "")

write_always_sets_path(bs, filename, io) ==
    LET path == IF filename = <<>> THEN current(bs).path ELSE filename
        cur == bs.cur_buf_index + 1
    IN IF path = NoPath THEN Answer(bs, NormalNew, "buffer has no path")
       ELSE IF path \in io.unwritable THEN Answer(bs, NormalNew, "write failed")
       ELSE Answer([bs EXCEPT !.list[cur] = [path |-> path, buf |-> [@.buf EXCEPT !.dirty = FALSE]]],
                   NormalNew, "")

write(bs, filename, io) ==
    LET path == IF filename = <<>> THEN current(bs).path ELSE filename
        cur == bs.cur_buf_index + 1
    IN IF path = NoPath THEN Answer(bs, NormalNew, "buffer has no path")
       ELSE IF path \in io.unwritable THEN Answer(bs, NormalNew, "write failed")
       ELSE Answer([bs EXCEPT !.list[cur] =
                        update_path_if_missing([@ EXCEPT !.buf.dirty = FALSE], path)],
                   NormalNew, "")

\* a loop that goes on after a failed write
RECURSIVE write_each_past_failure(_, _, _)
write_each_past_failure(list, j, unwritable) ==
    IF j > Len(list) THEN [list |-> list, failed |-> FALSE]
    ELSE IF list[j].path = NoPath THEN write_each_past_failure(list, j + 1, unwritable)
    ELSE IF list[j].path \in unwritable
    THEN [write_each_past_failure(list, j + 1, unwritable) EXCEPT !.failed = TRUE]
    ELSE write_each_past_failure([list EXCEPT ![j].buf.dirty = FALSE], j + 1, unwritable)

\* the loop of write_all and write_quit from buffer j on
RECURSIVE write_each(_, _, _)
write_each(list, j, unwritable) ==
    IF j > Len(list) THEN [list |-> list, failed |-> FALSE]
    ELSE IF list[j].path = NoPath THEN write_each(list, j + 1, unwritable)
    ELSE IF list[j].path \in unwritable THEN [list |-> list, failed |-> TRUE]
    ELSE write_each([list EXCEPT ![j].buf.dirty = FALSE], j + 1, unwritable)

write_all(bs, io) ==
    LET w == write_each(bs.list, 1, io.unwritable)
    IN Answer([bs EXCEPT !.list = w.list], NormalNew, IF w.failed THEN "write failed" ELSE "")

write_quit_regardless(bs, io) ==
    LET w == write_each(bs.list, 1, io.unwritable)
    IN Answer([bs EXCEPT !.list = w.list], QuittingMode, "")

write_quit(bs, io) ==
    LET w == write_each(bs.list, 1, io.unwritable)
    IN IF w.failed THEN Answer([bs EXCEPT !.list = w.list], NormalNew, "write failed")
       ELSE Answer([bs EXCEPT !.list = w.list], QuittingMode, "")

edit(bs, filename, io) ==
    LET r == switch_buffer(bs, filename, io)
    IN IF r.ok THEN Answer(r.bs, NormalNew, "") ELSE Answer(bs, NormalNew, "io error")

delete_buffer_unchecked(bs) == Answer(delete_current(bs), NormalNew, "")

delete_buffer(bs) ==
    IF current(bs).buf.dirty /\ current(bs).path # NoPath
    THEN Answer(bs, NormalNew, "buffer is dirty, use :db! if you're sure")
    ELSE Answer(delete_current(bs), NormalNew, "")

force_delete_buffer(bs) == Answer(delete_current(bs), NormalNew, "")

DEFAULT_COMMANDS(name) ==
    CASE name \in {<<"q">>, <<"q", "u", "i", "t">>} -> "quit"
      [] name \in {<<"q", "!">>, <<"q", "u", "i", "t", "!">>} -> "force_quit"
      [] name \in {<<"w">>, <<"w", "r", "i", "t", "e">>} -> "write"
      [] name = <<"w", "q">> -> "write_quit"
      [] name \in {<<"w", "a">>, <<"w", "r", "i", "t", "e", "-", "a", "l", "l">>} -> "write_all"
      [] name \in {<<"e">>, <<"e", "d", "i", "t">>} -> "edit"
      [] name \in {<<"d", "b">>,
                   <<"d", "e", "l", "e", "t", "e", "-", "b", "u", "f", "f", "e", "r">>}
            -> "delete_buffer"
      [] name \in {<<"d", "b", "!">>,
                   <<"d", "e", "l", "e", "t", "e", "-", "b", "u", "f", "f", "e", "r", "!">>}
            -> "force_delete_buffer"
      [] OTHER -> "none"

\* command.find(' '), or the length of the command
find_space(command) ==
    IF \E j \in 1..Len(command) : command[j] = " "
    THEN (CHOOSE j \in 1..Len(command) :
            command[j] = " " /\ \A q \in 1..(j - 1) : command[q] # " ") - 1
    ELSE Len(command)

command_name(command) == SubSeq(command, 1, find_space(command))

command_rest(command) ==
    LET rest == SubSeq(command, find_space(command) + 1, Len(command))
    IN IF rest = <<>> THEN rest ELSE Tail(rest)

finish(command, bs, io) ==
    LET handler == DEFAULT_COMMANDS(command_name(command))
        filename == command_rest(command)
    IN CASE handler = "quit" -> quit(bs)
         [] handler = "force_quit" -> force_quit(bs)
         [] handler = "write" -> write(bs, filename, io)
         [] handler = "write_quit" -> write_quit(bs, io)
         [] handler = "write_all" -> write_all(bs, io)
         [] handler = "edit" -> edit(bs, filename, io)
         [] handler = "delete_buffer" -> delete_buffer(bs)
         [] handler = "force_delete_buffer" -> force_delete_buffer(bs)
         [] OTHER -> Answer(bs, NormalNew, "Unknown command")

insert_char(command, cursor, ch) ==
    SubSeq(command, 1, cursor) \o <<ch>> \o SubSeq(command, cursor + 1, Len(command))

\* obs after a command line: the line, the answer of the file system and
\* the number of buffers before the command
Entered(command, io, count) ==
    [phase |-> "entered", run |-> FALSE, command |-> command, io |-> io, count |-> count]

\* the answer of a command becomes the state: the current buffer of the
\* answered collection moves into the editor variables
Install(a, entry) ==
    LET cur == a.bs.cur_buf_index + 1
    IN /\ SetBuf(a.bs.list[cur].buf)
       /\ buffers' = [list |-> [j \in 1..Len(a.bs.list) |->
                                    IF j = cur THEN place(a.bs.list[j].path)
                                    ELSE a.bs.list[j]],
                      cur_buf_index |-> a.bs.cur_buf_index]
       /\ mode' = a.mode
       /\ info' = a.info
       /\ obs' = entry
       /\ keys' = keys + 1
       /\ UNCHANGED <<panicked, alg>>

\* the model types the lines of CmdLines and keeps a collection within
\* MaxBuffers buffers
MaxBuffers == 3
CmdKeys == 6
CmdLines ==
    {<<"q">>, <<"q", "!">>, <<"q", "u", "i", "t">>, <<"w">>, <<"w", " ", "a">>, <<"w", " ", "b">>,
     <<"w", "q">>, <<"w", "a">>, <<"e">>, <<"e", " ", "a">>, <<"e", " ", "b">>, <<"d", "b">>,
     <<"d", "b", "!">>, <<"x">>}
is_prefix(s, t) == Len(s) <= Len(t) /\ SubSeq(t, 1, Len(s)) = s
typable(command) == \E line \in CmdLines : is_prefix(command, line)

CanOpen(bs, command, io) ==
    \/ Len(bs.list) < MaxBuffers
    \/ ~io.ok
    \/ DEFAULT_COMMANDS(command_name(command)) # "edit"
    \/ \E j \in 1..Len(bs.list) : bs.list[j].path = command_rest(command)

\* ":" in Normal mode
NormalCommandMode ==
    /\ InNormal
    /\ Finish(Done(buf), CommandMode(<<>>, 0), "", "other")

CommandChar(ch) ==
    /\ InCommand
    /\ typable(insert_char(mode.command, mode.cursor, ch))
    /\ Finish(Done(buf), CommandMode(insert_char(mode.command, mode.cursor, ch), mode.cursor + 1),
              "", "other")

CommandFinish(io) ==
    /\ InCommand
    /\ CanOpen(buffers, mode.command, io)
    /\ Install(finish(mode.command, collection, io), Entered(mode.command, io, Len(buffers.list)))

(***************************************************************************)
(* SpecCmd: command lines on a buffer collection.  The collection (one to  *)
(* MaxBuffers buffers, each with or without a path, edited or not) and the *)
(* mode (Normal, or Command with a typed line) are drawn at the start;     *)
(* lines are then typed and entered.                                       *)
(***************************************************************************)
\* String::remove(idx) aborts when idx is not inside the string
CommandRemoveLast ==
    /\ InCommand
    /\ IF mode.cursor # 0
       THEN Finish(Done(buf),
                   CommandMode(remove_at(mode.command, mode.cursor - 1), mode.cursor - 1),
                   "", "other")
       ELSE Finish(Done(buf), mode, "", "other")

CommandRemoveThis ==
    /\ InCommand
    /\ IF mode.cursor >= Len(mode.command)
       THEN Finish(Abort(buf), mode, "", "other")
       ELSE Finish(Done(buf), CommandMode(remove_at(mode.command, mode.cursor), mode.cursor),
                   "", "other")

CommandCursorLeft ==
    /\ InCommand
    /\ Finish(Done(buf),
              CommandMode(mode.command, IF mode.cursor # 0 THEN mode.cursor - 1 ELSE mode.cursor),
              "", "other")

CommandCursorRight ==
    /\ InCommand
    /\ Finish(Done(buf),
              CommandMode(mode.command,
                          IF mode.cursor < Len(mode.command) THEN mode.cursor + 1
                          ELSE mode.cursor),
              "", "other")

CommandCancel ==
    /\ InCommand
    /\ Finish(Done(buf), NormalNew, "", "other")

CmdChars == {"q", "!", "u", "i", "t", "w", " ", "a", "b", "e", "d", "x"}
CmdContents == {<<1>>}
Answers == [ok : BOOLEAN, content : CmdContents, unwritable : SUBSET Paths]

opened(path, edited) ==
    [path |-> path,
     buf |-> [default_buffer EXCEPT !.data = IF path = NoPath /\ ~edited THEN <<>> ELSE <<0>>,
                                    !.dirty = edited]]

InitCmd ==
    /\ \E n \in 1..MaxBuffers :
       \E paths \in [1..n -> Paths \cup {NoPath}] :
       \E edited \in [1..n -> BOOLEAN] :
       \E cur \in 0..(n - 1) :
          /\ data = opened(paths[cur + 1], edited[cur + 1]).buf.data
          /\ dirty = edited[cur + 1]
          /\ buffers = [list |-> [j \in 1..n |-> IF j = cur + 1 THEN place(paths[j])
                                                 ELSE opened(paths[j], edited[j])],
                        cur_buf_index |-> cur]
    /\ selection = default_selection
    /\ history = new_history
    /\ registers = <<>>
    /\ mode \in {NormalNew} \cup {CommandMode(line, Len(line)) : line \in CmdLines}
    /\ info = ""
    /\ panicked = FALSE
    /\ obs = ObsIdle
    /\ keys = MaxKeys - CmdKeys
    /\ alg = AlgIdle

NextCmd ==
    \/ NormalCommandMode
    \/ \E ch \in CmdChars : CommandChar(ch)
    \/ \E io \in Answers : CommandFinish(io)

SpecCmd == InitCmd /\ [][NextCmd]_vars

(***************************************************************************)
(* SpecSel: the selection keys of Normal mode.  The buffer, a selection of *)
(* one to three regions and a count are drawn at the start; selection keys *)
(* follow.                                                                 *)
(***************************************************************************)
SelLen == 4
SelKeys == 2
SelCount == 4

SelRegionLists(n) ==
    {rs \in SeqsUpTo(EditRegions(n), 3) :
        /\ rs # <<>>
        /\ \A j \in 1..(Len(rs) - 1) : max(rs[j]) < min(rs[j + 1])}

SelSelections(n) ==
    UNION {{[regions |-> [rs EXCEPT ![m + 1].main = TRUE], main_selection |-> m] :
                m \in 0..(Len(rs) - 1)} : rs \in SelRegionLists(n)}

InitSel ==
    /\ \E n \in 0..SelLen :
          /\ data = [j \in 1..n |-> 0]
          /\ selection \in SelSelections(n)
    /\ history = new_history
    /\ dirty = FALSE
    /\ registers = <<>>
    /\ mode \in {NormalWith(cs) :
                    cs \in {CountNone} \cup {CountSome(FALSE, k) : k \in 0..SelCount}}
    /\ info = ""
    /\ panicked = FALSE
    /\ buffers = with_buffer(OpenedPath)
    /\ obs = ObsIdle
    /\ keys = MaxKeys - SelKeys
    /\ alg = AlgIdle

NextSel ==
    \/ \E direction \in Directions : NormalMove(direction)
    \/ \E direction \in Directions : NormalExtend(direction)
    \/ NormalSwapCaret
    \/ NormalCollapseSelection
    \/ NormalRemoveMain
    \/ NormalRetainMain
    \/ NormalSelectNext
    \/ NormalSelectPrev

SpecSel == InitSel /\ [][NextSel]_vars

(***************************************************************************)
(* SpecSplit: a split on a pattern.  The buffer, the selection and the     *)
(* mode (Split with a count, or Search entered from Split with a typed     *)
(* pattern) are drawn at the start; n or Enter is then pressed.            *)
(***************************************************************************)
SplitLen == 4
SplitKeys == 1
SplitExample == <<1, 0, 0, 2, 0, 3>>
SplitPatterns ==
    SeqsUpTo({Literal(0), Literal(1), Wildcard}, 2)
SplitModes ==
    {SplitMode(cs) : cs \in {CountNone} \cup {CountSome(FALSE, c) : c \in 0..2}}
        \cup {SearchMode("Split", FALSE, <<>>, pattern, Len(pattern)) : pattern \in SplitPatterns}

InitSplit ==
    /\ \/ \E n \in 0..SplitLen :
              /\ data \in [1..n -> Byte]
              /\ selection \in EditSelections(n)
       \/ /\ data = SplitExample
          /\ selection = [regions |-> <<[caret |-> 5, tail |-> 0, main |-> TRUE]>>,
                          main_selection |-> 0]
    /\ history = new_history
    /\ dirty = FALSE
    /\ registers = <<>>
    /\ mode \in SplitModes
    /\ info = ""
    /\ panicked = FALSE
    /\ buffers = with_buffer(OpenedPath)
    /\ obs = ObsIdle
    /\ keys = MaxKeys - SplitKeys
    /\ alg = AlgIdle

NextSplit ==
    \/ SplitNull
    \/ SearchFinish

SpecSplit == InitSplit /\ [][NextSplit]_vars

(***************************************************************************)
(* SpecCount: count entry in Normal mode.  A sequence of count keys is     *)
(* drawn at the start (alg.e1) and typed one key at a time through         *)
(* Normal::transition; g is pressed after the last key.  A key that the    *)
(* count state does not handle ends the entry.  Counts go up to CountCap.  *)
(***************************************************************************)
PlanLen == 4
CountCap == 65535
PlanDigits == {0, 1, 10}
PlanAlphabet == {a \in CountKeys : a.k = "AppendDigit" => a.d \in PlanDigits}
Plans == UNION {[1..n -> PlanAlphabet] : n \in 0..PlanLen}

plan == alg.e1
typed == keys - (MaxKeys - (PlanLen + 1))

InitCount ==
    /\ \E n \in 0..MaxLen :
          /\ data = EditBase(n)
          /\ selection \in EditSelections(n)
    /\ history = new_history
    /\ dirty = FALSE
    /\ registers = <<>>
    /\ mode = NormalNew
    /\ info = ""
    /\ panicked = FALSE
    /\ buffers = with_buffer(OpenedPath)
    /\ obs = ObsIdle
    /\ keys = MaxKeys - (PlanLen + 1)
    /\ \E keys_to_type \in Plans : alg = [AlgIdle EXCEPT !.pc = "count", !.e1 = keys_to_type]

PlannedCount ==
    /\ typed < Len(plan)
    /\ InNormal
    /\ LET t == count_transition(mode.count_state, plan[typed + 1])
       IN /\ t.handled
          /\ t.state.count <= CountCap
          /\ Finish(Done(buf), NormalWith(t.state), "", "other")

PlannedJump ==
    /\ typed = Len(plan)
    /\ NormalJumpToMode

NextCount ==
    \/ PlannedCount
    \/ PlannedJump

SpecCount == InitCount /\ [][NextCount]_vars


(***************************************************************************)
(* Properties of the selection under edits.                                *)
(***************************************************************************)
\* where the edit should leave a coordinate: the forward-biased transform,
\* and the new length for a coordinate at the length before the edit
moved_coord(delta, coord, len_before) ==
    IF coord = len_before THEN new_document_len(delta) ELSE transform(delta, coord)

moved_selection(sel, delta, len_before) ==
    LET F(region) == new(moved_coord(delta, region.caret, len_before),
                         moved_coord(delta, region.tail, len_before))
    IN sel_of(map_each(sel, F))

\* C11: Buffer::apply_delta and apply_incomplete_delta leave every caret and
\* tail at the forward-biased transform of its old value through the delta,
\* except that a coordinate equal to the buffer length before the edit (and
\* no other) goes to the buffer length after the edit.  Regions that come to
\* overlap are merged as map_selections merges them.
C11_CoordsTransformed ==
    [][/\ (NormalDelete /\ data # <<>> /\ ~panicked') =>
            selection' = moved_selection(selection, deletion(data, selection).delta, Len(data))
       /\ (InsertRemoveLast /\ data # <<>> /\ mode.hex_half = <<>> /\ ~panicked') =>
            selection' = moved_selection(selection, backspace(data, selection).delta, Len(data))
       /\ (InsertRemoveThis /\ data # <<>> /\ ~panicked') =>
            selection' = moved_selection(selection, delete_cursor(data, selection).delta,
                                         Len(data))
       /\ \A key \in Byte : (InsertChar(key) /\ ~panicked') =>
            selection' = moved_selection(selection, insert(data, selection, <<key>>).delta,
                                         Len(data))]_vars

\* the last region of the selection, the only one that can reach the end
last_region(sel) == sel.regions[Len(sel.regions)]

\* the key event inserts bytes and deletes none, with no caret offset: a typed
\* character or a zero byte in Insert mode (incomplete), or a paste (final)
InsertsOnly ==
    /\ ~panicked'
    /\ \/ InsertNull
       \/ \E key \in Byte : InsertChar(key)
       \/ \E after \in BOOLEAN : NormalPaste(after)

\* C12: a caret at data.len() before an edit that only inserts bytes (insert
\* or paste, final or incomplete, applied without a caret offset) is at the
\* new data.len() after it.
C12_CaretStaysAtEnd ==
    [][(InsertsOnly /\ last_region(selection).caret = Len(data)) =>
            last_region(selection').caret = Len(data')]_vars

\* a paste of two bytes or more at a caret that was at the end of the buffer
C12_Witness ==
    /\ mode.name = "Normal"
    /\ obs.phase = "done"
    /\ Len(obs.sel0.regions) = 1
    /\ last_region(obs.sel0).caret = Len(obs.data0)
    /\ Len(data) >= Len(obs.data0) + 2
    /\ last_region(selection).caret = Len(data)

\* c, one or more typed characters and Esc have run on the buffer alg.base
\* with the selection alg.sel
ChangeDone ==
    /\ alg.pc = "change"
    /\ mode.name = "Normal"
    /\ obs.run
    /\ obs.phase = "done"
    /\ Len(history.undo) = 2

\* rope with the bytes of every region of sel replaced by text
with_regions_replaced(rope, sel, text) ==
    LET F(region) == <<Edit(min(region), max(region) + 1, text)>>
    IN apply_delta(rope, build(Len(rope), edits_of(sel, F)))

\* C13: with K >= 1 regions selected, c followed by typed bytes and Esc leaves
\* K regions and has replaced the bytes of each former region by the typed
\* bytes (adjacent single-byte regions that cover the file, changed with X,
\* give one X per region and as many regions as before).
C13_ChangeKeepsRegions ==
    ChangeDone =>
        /\ Len(selection.regions) = Len(alg.sel.regions)
        /\ \E text \in SeqsUpTo(Byte, ChangeKeys - 2) :
              /\ Len(text) = keys - (MaxKeys - ChangeKeys) - 2
              /\ data = with_regions_replaced(alg.base, alg.sel, text)

\* offset k lies inside a region of sel
in_region(sel, k) ==
    \E j \in 1..Len(sel.regions) : min(sel.regions[j]) <= k /\ k <= max(sel.regions[j])

\* new_rope is rope with ch at every offset inside a region of sel
replaced_in_place(rope, new_rope, sel, ch) ==
    /\ Len(new_rope) = Len(rope)
    /\ \A k \in 0..(Len(rope) - 1) :
          new_rope[k + 1] = IF in_region(sel, k) THEN ch ELSE rope[k + 1]

\* C14: the replace of r / R (ops::replace) sets every byte inside every
\* region to the given byte, leaves the bytes outside the regions as they
\* were and leaves the buffer length unchanged, in every selection state,
\* a caret at data.len() included.
C14_ReplaceInPlace ==
    [][/\ (ReplaceNull /\ ~panicked') => replaced_in_place(data, data', selection, 0)
       /\ \A key \in Byte : (ReplaceChar(key) /\ ~panicked') =>
                replaced_in_place(data, data', selection, key)]_vars

\* the key event overwrites the regions in Replace mode
ReplaceApplied ==
    /\ ~panicked'
    /\ \/ ReplaceNull
       \/ \E key \in Byte : ReplaceChar(key)
       \/ mode.hex_half # <<>> /\ \E digit \in HexDigits : ReplaceHexDigit(digit)

\* C15: replacing in place does not move the selection: after r and a byte
\* every region has the caret and the tail it had before.
C15_ReplaceKeepsSelection ==
    [][ReplaceApplied => selection' = selection]_vars

\* rope with bytes inserted before offset pos
inserted_at(rope, pos, bytes) ==
    SubSeq(rope, 1, pos) \o bytes \o SubSeq(rope, pos + 1, Len(rope))

\* what a paste inserts for region j (1-based): entry min(j, len) of the
\* register, count times
pasted_bytes(contents, j, count) ==
    Flatten([q \in 1..count |-> contents[Min2(j, Len(contents))]])

\* rope after the insertions for regions j, j - 1, .., 1, each at the end of
\* its region (bounded by the end of the buffer) or at its start
RECURSIVE pasted_from(_, _, _, _, _, _, _)
pasted_from(rope, base_len, sel, contents, after, count, j) ==
    IF j = 0 THEN rope
    ELSE pasted_from(inserted_at(rope,
                                 IF after THEN Min2(base_len, max(sel.regions[j]) + 1)
                                 ELSE min(sel.regions[j]),
                                 pasted_bytes(contents, j, count)),
                     base_len, sel, contents, after, count, j - 1)

holds_at(new_rope, off, bytes) ==
    \/ bytes = <<>>
    \/ /\ off + Len(bytes) <= Len(new_rope)
       /\ SubSeq(new_rope, off + 1, off + Len(bytes)) = bytes

\* the number of bytes a paste inserts for the regions before region j
pasted_before(contents, j, count) ==
    SumSeq([q \in 1..(j - 1) |-> Len(pasted_bytes(contents, q, count))])

moved_caret(caret, direction, count, n) ==
    LET steps == Min2(count, n) * (IF direction \in {"Up", "Down"} THEN BytesPerLine ELSE 1)
    IN IF direction \in {"Up", "Left"} THEN Max2(0, caret - steps)
       ELSE Min2(n, caret + steps)

moved_regions(sel, direction, count, n, extend) ==
    LET F(region) == new(moved_caret(region.caret, direction, count, n),
                         IF extend THEN region.tail
                         ELSE moved_caret(region.caret, direction, count, n))
    IN sel_of(map_each(sel, F))

\* C17: a count N before h / j / k / l moves every caret N columns (h, l) or
\* N lines of bytes_per_line bytes (k, j), clamped to [0, data.len()], and
\* puts the tail on the caret; H / J / K / L move the caret the same way and
\* leave the tail; without a count N is 1.  Regions that come to overlap are
\* merged as map_selections merges them.
C17_CountedMoves ==
    [][\A direction \in Directions :
        /\ (NormalMove(direction) /\ ~panicked') =>
                selection' = moved_regions(selection, direction, to_count(mode.count_state),
                                           Len(data), FALSE)
        /\ (NormalExtend(direction) /\ ~panicked') =>
                selection' = moved_regions(selection, direction, to_count(mode.count_state),
                                           Len(data), TRUE)]_vars

\* C18: while no count is pending the key 0 is ignored: the count state
\* stays None, in Normal mode and in Split mode alike.
C18_LeadingZeroIgnored ==
    [][\A a \in CountKeys :
        (/\ a.k = "AppendDigit"
         /\ a.d = 0
         /\ ~mode.count_state.some
         /\ NormalCount(a) \/ SplitCount(a)) => ~mode'.count_state.some]_vars

\* the count state after typing the keys from an empty count
RECURSIVE count_after(_)
count_after(typed_keys) ==
    IF typed_keys = <<>> THEN CountNone
    ELSE count_transition(count_after(SubSeq(typed_keys, 1, Len(typed_keys) - 1)),
                          typed_keys[Len(typed_keys)]).state

RECURSIVE digits_value(_, _)
digits_value(digit_keys, radix) ==
    IF digit_keys = <<>> THEN 0
    ELSE digits_value(SubSeq(digit_keys, 1, Len(digit_keys) - 1), radix) * radix
            + digit_keys[Len(digit_keys)].d

RECURSIVE power(_, _)
power(radix, n) == IF n = 0 THEN 1 ELSE radix * power(radix, n - 1)

\* the typed keys are decimal digits, then x at position switch_at, then hex digits
decimal_then_hex(typed_keys, switch_at) ==
    /\ switch_at \in 2..(Len(typed_keys) - 1)
    /\ typed_keys[switch_at].k = "SwitchHexEntry"
    /\ \A j \in 1..(switch_at - 1) : typed_keys[j].k = "AppendDigit" /\ typed_keys[j].d <= 9
    /\ \A j \in (switch_at + 1)..Len(typed_keys) : typed_keys[j].k = "AppendDigit"

decimal_part(typed_keys, switch_at) == SubSeq(typed_keys, 1, switch_at - 1)
hex_part(typed_keys, switch_at) == SubSeq(typed_keys, switch_at + 1, Len(typed_keys))

all_regions_at(sel, offset) ==
    \A j \in 1..Len(sel.regions) :
        sel.regions[j].caret = offset /\ sel.regions[j].tail = offset

\* the offset <N> x <HH> amounts to: N keeps its value when x switches the base
switched_offset(typed_keys, switch_at) ==
    digits_value(decimal_part(typed_keys, switch_at), 10)
            * power(16, Len(hex_part(typed_keys, switch_at)))
        + digits_value(hex_part(typed_keys, switch_at), 16)

C20_BackspaceUndoesDigit ==
    (mode.name = "Normal" /\ typed \in 1..Len(plan)) =>
        /\ (/\ typed >= 2
            /\ plan[typed].k = "RemoveLast"
            /\ plan[typed - 1].k = "AppendDigit") =>
                mode.count_state = count_after(SubSeq(plan, 1, typed - 2))
        /\ plan[typed].k = "CancelEntry" => ~mode.count_state.some

\* the pattern that n or Enter hands to apply_search in the current mode
split_pattern ==
    IF mode.name = "Search" THEN mode.pattern
    ELSE [j \in 1..to_count(mode.count_state) |-> Literal(0)]

\* the offsets covered by a match of the pattern inside a region
matched_offsets(rope, sel, pattern) ==
    LET found == map_selections_to_matches(rope, sel, pattern)
    IN UNION {UNION {found[j][q].start..(found[j][q].end - 1) : q \in 1..Len(found[j])} :
                j \in 1..Len(found)}

selected_offsets(sel) ==
    UNION {min(sel.regions[j])..max(sel.regions[j]) : j \in 1..Len(sel.regions)}

\* the maximal runs of offsets of lo..hi that are not in covered, in order
RECURSIVE uncovered_runs(_, _, _)
uncovered_runs(lo, hi, covered) ==
    IF lo > hi THEN <<>>
    ELSE IF lo \in covered THEN uncovered_runs(lo + 1, hi, covered)
    ELSE LET last == CHOOSE b \in lo..hi :
                        /\ (lo..b) \cap covered = {}
                        /\ b = hi \/ b + 1 \in covered
         IN <<<<lo, last>>>> \o uncovered_runs(last + 1, hi, covered)

extents(sel) == [j \in 1..Len(sel.regions) |-> <<min(sel.regions[j]), max(sel.regions[j])>>]

split_extents(rope, sel, pattern) ==
    LET covered == IF pattern = <<>> THEN {} ELSE matched_offsets(rope, sel, pattern)
    IN IF selected_offsets(sel) \subseteq covered THEN extents(sel)
       ELSE Flatten([j \in 1..Len(sel.regions) |->
                        uncovered_runs(min(sel.regions[j]), max(sel.regions[j]), covered)])

own_byte(sel, j) == sel.regions[j].caret + (j - 1)

\* rope without the bytes at the given offsets
RECURSIVE without_offsets(_, _, _)
without_offsets(rope, offsets, at) ==
    IF rope = <<>> THEN <<>>
    ELSE (IF at \in offsets THEN <<>> ELSE <<Head(rope)>>)
            \o without_offsets(Tail(rope), offsets, at + 1)

first_hex_digit(digit) ==
    /\ InsertHexDigit(digit)
    /\ mode.hex_half = <<>>
    /\ ~panicked'

\* C22: in hex Insert mode with no half byte pending a hex digit d inserts
\* one provisional byte d << 4 at the caret of every region and leaves every
\* caret on its provisional byte; hex_half becomes Some(d << 4), which is
\* when has_half_cursor is true.  Esc then leaves Insert mode with the
\* provisional byte in the buffer and the edit committed.
C22_HalfByteUnderCaret ==
    [][/\ \A digit \in HexDigits : first_hex_digit(digit) =>
            /\ Len(selection'.regions) = Len(selection.regions)
            /\ \A j \in 1..Len(selection.regions) :
                    /\ selection'.regions[j].caret = own_byte(selection, j)
                    /\ data'[own_byte(selection, j) + 1] = digit * 16
            /\ without_offsets(data', {own_byte(selection, j) : j \in 1..Len(selection.regions)}, 0)
                    = data
            /\ mode'.name = "Insert"
            /\ mode'.hex_half = <<digit * 16>>
       /\ (InsertExit /\ mode.hex_half # <<>>) =>
            /\ data' = data
            /\ selection' = selection
            /\ mode' = NormalNew
            /\ history'.partial = <<>>
            /\ history'.undo # <<>>]_vars

\* a one-byte buffer with the caret at 0, a hex digit, then Esc
C22_Witness ==
    /\ data = <<16>> \o EditBase(1)
    /\ selection.regions[1].caret = 0
    /\ mode = NormalNew
    /\ history.partial = <<>>
    /\ Len(history.undo) = 1
    /\ keys = MaxKeys

carets(sel) == {sel.regions[j].caret : j \in 1..Len(sel.regions)}

second_hex_digit(digit) ==
    /\ InsertHexDigit(digit)
    /\ mode.hex_half # <<>>
    /\ ~panicked'

\* C23: two hex digits d1 d2 typed in hex Insert mode add exactly one byte
\* (d1 << 4) | d2 per region: the first digit makes the buffer one byte per
\* region longer, the second finds the pending half under every caret and
\* completes that byte in place without changing the length or any other
\* byte, and hex_half is None afterwards.
C23_TwoDigitsOneByte ==
    [][\A digit \in HexDigits :
        /\ first_hex_digit(digit) =>
                Len(data') = Len(data) + Len(selection.regions)
        /\ second_hex_digit(digit) =>
                /\ \A at \in carets(selection) :
                        at < Len(data) /\ data[at + 1] = mode.hex_half[1]
                /\ Len(data') = Len(data)
                /\ \A at \in 0..(Len(data) - 1) :
                        data'[at + 1] = IF at \in carets(selection)
                                        THEN mode.hex_half[1] + digit
                                        ELSE data[at + 1]
                /\ mode'.name = "Insert"
                /\ mode'.hex_half = <<>>]_vars

\* the digits 1 1 typed at offset 0 of a one-byte buffer
C23_Witness ==
    /\ data = <<17>> \o EditBase(1)
    /\ mode.name = "Insert"
    /\ mode.hex_half = <<>>
    /\ history.partial # <<>>
    /\ keys = MaxKeys

\* the key before this one was the first hex digit of a byte, typed in the
\* start state of the editing operations: obs holds the buffer before it
after_first_digit ==
    /\ mode.name = "Insert"
    /\ mode.hex_half # <<>>
    /\ obs.phase = "run"
    /\ keys = MaxKeys - EditKeys + 1

\* C24: in the half state of hex Insert mode Backspace and Delete discard
\* the provisional byte of every region and clear hex_half: a digit followed
\* by Backspace (or Delete) restores the bytes and the selection that held
\* before the digit.
C24_RemoveUndoesDigit ==
    [][(after_first_digit /\ (InsertRemoveLast \/ InsertRemoveThis) /\ ~panicked') =>
            /\ data' = obs.data0
            /\ selection' = obs.sel0
            /\ mode'.hex_half = <<>>]_vars



\* the step that enters the typed line, when the line names the handler
entered(handler) ==
    /\ mode.name = "Command"
    /\ mode'.name # "Command"
    /\ DEFAULT_COMMANDS(command_name(mode.command)) = handler

unsaved(list) == \E j \in 1..Len(list) : list[j].buf.dirty /\ list[j].path # NoPath

\* C25: :q and :quit enter Quitting exactly when no buffer is both dirty and
\* path-backed, and otherwise return to Normal with the "unsaved changes"
\* info and every buffer as it was; Quitting is entered only by such a :q,
\* by :q!, or by a :wq in which no write failed.
C25_QuitOnlyWhenSaved ==
    [][/\ entered("quit") =>
            IF unsaved(collection.list)
            THEN /\ mode' = NormalNew
                 /\ info' = "unsaved changes! Run :wq or :q! instead."
                 /\ collection' = collection
            ELSE mode' = QuittingMode
       /\ (mode.name # "Quitting" /\ mode'.name = "Quitting") =>
            \/ entered("quit") /\ ~unsaved(collection.list)
            \/ entered("force_quit")
            \/ /\ entered("write_quit")
               /\ \A j \in 1..Len(collection.list) :
                    collection.list[j].path \notin obs'.io.unwritable
               /\ ~unsaved(collection'.list)]_vars

\* :q has been refused in a collection of several buffers whose current
\* buffer is saved
C25_Witness ==
    /\ mode = NormalNew
    /\ obs.phase = "entered"
    /\ obs.command = <<"q">>
    /\ info = "unsaved changes! Run :wq or :q! instead."
    /\ Len(buffers.list) > 1
    /\ ~dirty
    /\ unsaved(collection.list)
\* the place of the current buffer with one field changed
saved_as(bs, path) ==
    [bs EXCEPT !.list[bs.cur_buf_index + 1] =
        [path |-> path, buf |-> [current(bs).buf EXCEPT !.dirty = FALSE]]]

\* C26: :w writes to the given path, or to the buffer's own path when none
\* is given, and with neither only sets the info "buffer has no path"; a
\* successful write clears dirty and gives the buffer the written path only
\* if it had none; a failed write leaves dirty and path as they were, in
\* Normal mode.
C26_WriteCurrent ==
    [][entered("write") =>
         LET given == command_rest(mode.command)
             own == current(collection).path
             target == IF given # <<>> THEN given ELSE own
         IN /\ mode' = NormalNew
            /\ IF target = NoPath
               THEN info' = "buffer has no path" /\ collection' = collection
               ELSE IF target \in obs'.io.unwritable
               THEN info' = "write failed" /\ collection' = collection
               ELSE /\ info' = ""
                    /\ collection' = saved_as(collection, IF own = NoPath THEN given ELSE own)]_vars

\* an edited buffer with a path has been written to another path
C26_Witness ==
    /\ mode = NormalNew
    /\ obs.phase = "entered"
    /\ obs.command = <<"w", " ", "b">>
    /\ obs.io.unwritable = {<<"a">>}
    /\ current(collection).path = <<"a">>
    /\ ~dirty
    /\ data = <<0>>
    /\ info = ""
\* the first buffer with a path whose write fails, or 0
RECURSIVE first_failure(_, _, _)
first_failure(list, j, unwritable) ==
    IF j > Len(list) THEN 0
    ELSE IF list[j].path # NoPath /\ list[j].path \in unwritable THEN j
    ELSE first_failure(list, j + 1, unwritable)

\* C27: :wa and :wq write the buffers with a path in list order and stop at
\* the first failure: the buffers with a path before it are clean, the
\* failing buffer, the later ones and the buffers without a path are as
\* they were, and after a failure :wq stays in Normal.
C27_WriteAllStopsAtFailure ==
    [][(entered("write_all") \/ entered("write_quit")) =>
         LET old == collection.list
             f == first_failure(old, 1, obs'.io.unwritable)
             stop == IF f = 0 THEN Len(old) + 1 ELSE f
         IN /\ collection'.cur_buf_index = collection.cur_buf_index
            /\ Len(collection'.list) = Len(old)
            /\ \A j \in 1..Len(old) :
                  IF j < stop /\ old[j].path # NoPath
                  THEN collection'.list[j] = [old[j] EXCEPT !.buf.dirty = FALSE]
                  ELSE collection'.list[j] = old[j]
            /\ f # 0 => mode' = NormalNew /\ info' = "write failed"
            /\ f = 0 => mode' = IF entered("write_quit") THEN QuittingMode ELSE NormalNew]_vars

\* :wq has failed at the second of three edited buffers, after a buffer
\* without a path and a written one
C27_Witness ==
    /\ mode = NormalNew
    /\ obs.phase = "entered"
    /\ obs.command = <<"w", "q">>
    /\ info = "write failed"
    /\ Len(collection.list) = 3
    /\ \E j \in 1..2 : \E q \in (j + 1)..3 :
          /\ collection.list[j].path # NoPath
          /\ ~collection.list[j].buf.dirty
          /\ collection.list[j].path \notin obs.io.unwritable
          /\ collection.list[q].path \in obs.io.unwritable
          /\ collection.list[q].buf.dirty
    /\ \E j \in 1..3 : collection.list[j].path = NoPath /\ collection.list[j].buf.dirty
scratch == [path |-> NoPath, buf |-> default_buffer]

\* the collection without its current buffer
without_current(bs) ==
    IF Len(bs.list) = 1 THEN [list |-> <<scratch>>, cur_buf_index |-> 0]
    ELSE [list |-> [j \in 1..(Len(bs.list) - 1) |->
                        bs.list[IF j <= bs.cur_buf_index THEN j ELSE j + 1]],
          cur_buf_index |-> IF bs.cur_buf_index = 0 THEN 0 ELSE bs.cur_buf_index - 1]

index_in_range(bs) == bs.list # <<>> /\ bs.cur_buf_index \in 0..(Len(bs.list) - 1)

\* C28: under :e, :db and :db! the collection stays non-empty with the
\* current index at an existing buffer; :db on a dirty buffer with a path
\* changes nothing but the info, :db! always removes the current buffer,
\* and removing the only buffer leaves one fresh buffer without a path.
C28_CollectionNeverEmpty ==
    [][/\ index_in_range(collection')
       /\ entered("delete_buffer") =>
             IF dirty /\ current(collection).path # NoPath
             THEN /\ collection' = collection
                  /\ info' = "buffer is dirty, use :db! if you're sure"
             ELSE collection' = without_current(collection)
       /\ entered("force_delete_buffer") => collection' = without_current(collection)
       /\ entered("edit") =>
             \/ collection' = collection /\ info' # ""
             \/ /\ current(collection').path = command_rest(mode.command)
                /\ \/ collection'.list = collection.list
                   \/ /\ \A j \in 1..Len(collection.list) :
                            collection.list[j].path # command_rest(mode.command)
                      /\ collection'.list =
                            Append(collection.list,
                                   from_data_and_path(obs'.io.content,
                                                      command_rest(mode.command)))]_vars

\* :db! has removed the only buffer, an edited one with a path
C28_Witness ==
    /\ obs.phase = "entered"
    /\ obs.command = <<"d", "b", "!">>
    /\ obs.count = 1
    /\ keys = 1
    /\ collection = [list |-> <<scratch>>, cur_buf_index |-> 0]
sorted_disjoint(intervals) ==
    \A j \in 1..Len(intervals) : \A q \in (j + 1)..Len(intervals) :
        /\ intervals[j].start <= intervals[q].start
        /\ intervals[j].end <= intervals[q].start

covered_offsets(intervals) ==
    UNION {intervals[j].start..(intervals[j].end - 1) : j \in 1..Len(intervals)}

\* C29: every ChangeInPlace list the buffer returns (map_selections,
\* select_next and select_prev, retain_selection and remove_selection) is
\* pairwise disjoint and sorted by start, and the list of map_selections
\* covers every byte of every old and every new region.
C29_DirtyBytesSortedDisjoint ==
    [][(keys' = keys + 1 /\ obs'.phase = "emitted") =>
          /\ sorted_disjoint(obs'.dirty_bytes.intervals)
          /\ obs'.dirty_bytes.by = "map_selections" =>
                (selected_offsets(selection) \cup selected_offsets(selection'))
                    \subseteq covered_offsets(obs'.dirty_bytes.intervals)]_vars
\* a region without its main flag
bare(region) == <<region.caret, region.tail>>

\* the 0-based region Space and Alt-Space act on
counted_region ==
    IF mode.count_state.some /\ mode.count_state.count > 0
    THEN mode.count_state.count - 1
    ELSE selection.main_selection

\* C30: remove(i) leaves the other regions in their order and leaves a
\* selection of one region as it is; retain(i) leaves region i alone.  Space
\* and Alt-Space act on region c - 1 under a count c >= 1 and on the main
\* region without a count.
C30_RemoveAndRetain ==
    [][(/\ keys' = keys + 1
        /\ obs'.phase = "emitted"
        /\ obs'.dirty_bytes.by \in {"remove_selection", "retain_selection"}
        /\ counted_region < Len(selection.regions)) =>
          LET n == Len(selection.regions)
              i == counted_region
          IN /\ \A k \in 0..(n - 1) :
                  /\ Len(retain(selection, k).regions) = 1
                  /\ bare(retain(selection, k).regions[1]) = bare(selection.regions[k + 1])
                  /\ IF n = 1 THEN remove(selection, k) = selection
                     ELSE [j \in 1..(n - 1) |-> bare(remove(selection, k).regions[j])]
                            = [j \in 1..(n - 1) |->
                                    bare(selection.regions[IF j <= k THEN j ELSE j + 1])]
             /\ selection' = IF obs'.dirty_bytes.by = "retain_selection"
                             THEN retain(selection, i) ELSE remove(selection, i)
             /\ mode' = IF mode.count_state.some /\ mode.count_state.count > 0
                        THEN NormalNew ELSE mode]_vars

\* Alt-Space under the count 2 has removed the second of three regions, which
\* was not the main one
C30_Witness ==
    /\ obs.phase = "emitted"
    /\ obs.dirty_bytes.by = "remove_selection"
    /\ Len(obs.dirty_bytes.intervals) = 3
    /\ Len(selection.regions) = 2
    /\ keys = MaxKeys - SelKeys + 1
    /\ mode = NormalNew
    /\ min(selection.regions[1]) = obs.dirty_bytes.intervals[1].start
    /\ min(selection.regions[2]) = obs.dirty_bytes.intervals[3].start
    /\ selection.main_selection = 1

(***************************************************************************)
(* The keys that lead from the start of the editor to several regions and  *)
(* then move or extend them: select all, split by width, count digits, the *)
(* absolute jump and extend, the direction extends.                        *)
(***************************************************************************)
WalkLen == 3
WalkKeys == 5

InitWalk ==
    /\ \E n \in 0..WalkLen : data = [j \in 1..n |-> 0]
    /\ selection = default_selection
    /\ history = new_history
    /\ dirty = FALSE
    /\ registers = <<>>
    /\ mode = NormalNew
    /\ info = ""
    /\ panicked = FALSE
    /\ buffers = with_buffer(OpenedPath)
    /\ obs = ObsIdle
    /\ keys = MaxKeys - WalkKeys
    /\ alg = AlgIdle

NextWalk ==
    \/ NormalSelectAll
    \/ NormalSplitMode
    \/ \E a \in CountKeys : SplitCount(a)
    \/ \E width \in Widths : SplitWidth(width)
    \/ \E a \in CountKeys : NormalCount(a)
    \/ NormalJumpToMode
    \/ NormalExtendToMode
    \/ \E direction \in Directions : JumpToDirection(direction)
    \/ \E direction \in Directions : NormalMove(direction)
    \/ \E direction \in Directions : NormalExtend(direction)

SpecWalk == InitWalk /\ [][NextWalk]_vars

\* selection.rs 386-411: the two regions reach the panic! of merge, the arm
\* where they are neither both forward nor both backward
opposite_directions(self, other) ==
    /\ ~(forward(self) /\ forward(other))
    /\ ~(backward(self) /\ backward(other))

\* the regions news, pushed in order onto the output whose last region is
\* out (<<>> while it is empty), reach that panic!
RECURSIVE merges_opposite(_, _)
merges_opposite(out, news) ==
    IF news = <<>> THEN FALSE
    ELSE LET nr == Head(news)
         IN IF out = <<>> \/ ~overlaps(out[1], nr)
            THEN merges_opposite(<<nr>>, Tail(news))
            ELSE IF opposite_directions(out[1], nr) THEN TRUE
            ELSE IF ~merge_ok(out[1], nr) THEN FALSE
            ELSE merges_opposite(<<merge(out[1], nr)>>, Tail(news))

\* map_selections with f giving one region for each region
each_merges_opposite(sel, F(_)) ==
    merges_opposite(<<>>, [j \in 1..Len(sel.regions) |-> F(sel.regions[j])])

\* C31: no Normal-mode key makes map_selections merge two regions of
\* opposite strict direction.  Here: wherever the editor is in Normal mode
\* with a count typed, G (extend every region to the offset of the count)
\* does not reach the abort of merge.
C31_CountedExtendToNeverMergesOpposite ==
    (InNormal /\ mode.count_state.some) =>
        LET F(region) == extend_to(region, mode.count_state.count)
        IN ~each_merges_opposite(selection, F)

\* the part of C31 about H/J/K/L and the count-prefixed g: wherever the
\* editor is in Normal mode, no direction extend or move under the count
\* typed, and no absolute jump, reaches the abort of merge
C31_DirectionKeysNeverMergeOpposite ==
    InNormal =>
        /\ \A direction \in Directions :
            LET E(region) == simple_extend(region, direction, BytesPerLine, Len(data),
                                           to_count(mode.count_state))
                M(region) == simple_move(region, direction, BytesPerLine, Len(data),
                                         to_count(mode.count_state))
            IN ~each_merges_opposite(selection, E) /\ ~each_merges_opposite(selection, M)
        /\ LET J(region) == jump_to(region, mode.count_state.count)
           IN ~each_merges_opposite(selection, J)

\* several regions of differing direction are selected in Normal mode
C31_SeveralRegions ==
    /\ InNormal
    /\ Len(selection.regions) >= 2
    /\ \E j, k \in 1..Len(selection.regions) :
          /\ ~backward(selection.regions[j])
          /\ ~forward(selection.regions[k])

(***************************************************************************)
(* Accepting a search: every buffer of up to SplitLen bytes, every         *)
(* selection of one or two regions inside it, every pattern of up to two   *)
(* pieces, for Split and for Collapse.                                     *)
(***************************************************************************)
AcceptModes ==
    {SearchMode(next, FALSE, <<>>, pattern, Len(pattern)) :
        next \in {"Split", "Collapse"}, pattern \in SplitPatterns}

InitAccept ==
    /\ \E n \in 0..SplitLen :
          /\ data \in [1..n -> Byte]
          /\ selection \in EditSelections(n)
    /\ history = new_history
    /\ dirty = FALSE
    /\ registers = <<>>
    /\ mode \in AcceptModes
    /\ info = ""
    /\ panicked = FALSE
    /\ buffers = with_buffer(OpenedPath)
    /\ obs = ObsIdle
    /\ keys = MaxKeys - SplitKeys
    /\ alg = AlgIdle

NextAccept == SearchFinish

SpecAccept == InitAccept /\ [][NextAccept]_vars

\* C32: after a Collapse or Split search is accepted with a non-empty
\* pattern, on a selection whose regions lie inside the buffer, the editor
\* has not aborted, the selection is non-empty and main_selection
\* designates one of its regions, the one flagged main.
C32_AcceptedSearchKeepsMain ==
    [][(SearchFinish /\ mode.pattern # <<>> /\ matches_ok(data, selection)) =>
          /\ ~panicked'
          /\ selection'.regions # <<>>
          /\ selection'.main_selection < Len(selection'.regions)
          /\ selection'.regions[selection'.main_selection + 1].main]_vars

\* the part of C32 that holds: the same, for the searches where the main
\* region or a region before it gives an output region; and a Collapse
\* without any match leaves the selection as it was
C32_MainAfterContribution ==
    [][(/\ SearchFinish
        /\ mode.pattern # <<>>
        /\ matches_ok(data, selection)) =>
          LET matched_ranges == map_selections_to_matches(data, selection, mode.pattern)
              outs == [j \in 1..Len(selection.regions) |->
                          IF mode.next = "Collapse"
                          THEN collapse_pieces(selection.regions[j], matched_ranges[j])
                          ELSE split_pieces(selection.regions[j], matched_ranges[j])]
              unchanged == IF mode.next = "Collapse"
                           THEN \A j \in 1..Len(outs) : matched_ranges[j] = <<>>
                           ELSE \A j \in 1..Len(outs) : outs[j] = <<>>
          IN /\ unchanged => (~panicked' /\ selection' = selection)
             /\ (~unchanged /\ \E j \in 1..(selection.main_selection + 1) : outs[j] # <<>>) =>
                   /\ ~panicked'
                   /\ selection'.regions # <<>>
                   /\ selection'.main_selection < Len(selection'.regions)
                   /\ selection'.regions[selection'.main_selection + 1].main
             /\ (~unchanged /\ \A j \in 1..(selection.main_selection + 1) : outs[j] = <<>>) =>
                   panicked']_vars

(***************************************************************************)
(* split_at_region on its own: every region inside PieceLen + 1 bytes and  *)
(* every range [start, end] inside the region, as Split::apply_search      *)
(* hands it the matches found inside the region.                           *)
(***************************************************************************)
PieceLen == 5

PieceRegions == {new(caret, tail) : caret \in 0..PieceLen, tail \in 0..PieceLen}

InitPieces ==
    /\ data = <<>>
    /\ selection = default_selection
    /\ history = new_history
    /\ dirty = FALSE
    /\ registers = <<>>
    /\ mode = NormalNew
    /\ info = ""
    /\ panicked = FALSE
    /\ buffers = with_buffer(OpenedPath)
    /\ obs = ObsIdle
    /\ keys = 0
    /\ \E region \in PieceRegions :
       \E start \in min(region)..max(region) :
       \E end \in start..max(region) :
          alg = [pc |-> "region", region |-> region, start |-> start, end |-> end]

SplitAtRegion ==
    /\ alg.pc = "region"
    /\ LET sp == split_at_region(alg.region, alg.start, alg.end)
       IN alg' = [pc |-> "pieces", region |-> alg.region, start |-> alg.start,
                  end |-> alg.end, left |-> sp.left, right |-> sp.right]
    /\ UNCHANGED edvars

NextPieces == SplitAtRegion

SpecPieces == InitPieces /\ [][NextPieces]_vars

offsets_of(region) == min(region)..max(region)

same_direction(piece, parent) ==
    /\ forward(parent) => forward(piece)
    /\ backward(parent) => backward(piece)

\* C33: split_at_region(s, e) returns at most two pieces whose union is the
\* bytes of the region outside [s, e], and every piece has the direction of
\* the region, at the left edge, at the right edge and strictly inside.
C33_PiecesKeepDirection ==
    alg.pc = "pieces" =>
        LET pieces == alg.left \o alg.right
        IN /\ Len(pieces) <= 2
           /\ UNION {offsets_of(pieces[j]) : j \in 1..Len(pieces)}
                = offsets_of(alg.region) \ (alg.start..alg.end)
           /\ \A j \in 1..Len(pieces) : same_direction(pieces[j], alg.region)

\* the part of C33 that holds: the number of pieces and the bytes they take,
\* in every case, and the direction of the piece when the range touches an
\* edge of the region
C33_PiecesCoverRest ==
    alg.pc = "pieces" =>
        LET pieces == alg.left \o alg.right
        IN /\ Len(pieces) <= 2
           /\ Len(alg.left) <= 1 /\ Len(alg.right) <= 1
           /\ UNION {offsets_of(pieces[j]) : j \in 1..Len(pieces)}
                = offsets_of(alg.region) \ (alg.start..alg.end)
           /\ (alg.start = min(alg.region) \/ alg.end = max(alg.region)) =>
                \A j \in 1..Len(pieces) : same_direction(pieces[j], alg.region)
           /\ (alg.start > min(alg.region) /\ alg.end < max(alg.region)) =>
                \A j \in 1..Len(pieces) : backward(pieces[j])

\* piece is one of the chunks of step bytes of the region parent, counted
\* from min(parent), the last one possibly shorter, in the parent's direction
chunk_of(piece, parent, step) ==
    /\ min(parent) <= min(piece) /\ max(piece) <= max(parent)
    /\ (min(piece) - min(parent)) % step = 0
    /\ max(piece) = Min2(max(parent), min(piece) + step - 1)
    /\ same_direction(piece, parent)

\* what C34 says of a width key with the width W under the count state cs
chunked(sel, after, step) ==
    /\ selected_offsets(after) = selected_offsets(sel)
    /\ \A k \in 1..Len(after.regions) :
          \E j \in 1..Len(sel.regions) : chunk_of(after.regions[k], sel.regions[j], step)
    /\ \A k \in 1..(Len(after.regions) - 1) :
          max(after.regions[k]) < min(after.regions[k + 1])
    /\ after.main_selection < Len(after.regions)
    /\ main_region(after).main
    /\ chunk_of(main_region(after), main_region(sel), step)

\* C34: in Split mode, for every count the count prefix can hold, a width
\* key replaces each region by consecutive chunks of W x count bytes from
\* its min on, the last one possibly shorter, that cover the region, in the
\* direction of the region, the main region being a chunk of the former
\* main region, and returns to Normal.
C34_WidthKeyChunks ==
    [][\A width \in Widths :
          SplitWidth(width) =>
              /\ ~panicked'
              /\ mode' = NormalNew
              /\ chunked(selection, selection', width * to_count(mode.count_state))]_vars

\* the part of C34 that holds: the same for every count but 0
C34_PositiveCountChunks ==
    [][\A width \in Widths :
          (SplitWidth(width) /\ to_count(mode.count_state) > 0) =>
              /\ ~panicked'
              /\ mode' = NormalNew
              /\ chunked(selection, selection', width * to_count(mode.count_state))]_vars

\* a region of three bytes or more has been cut into chunks of two bytes
C34_Chunked ==
    /\ mode = NormalNew
    /\ ~panicked
    /\ Len(selection.regions) >= 2
    /\ len(selection.regions[1]) = 2
    /\ len(selection.regions[Len(selection.regions)]) = 1

\* C35: whenever a final delta is applied or undo or redo is performed,
\* history.partial is empty; partial is non-empty only while the mode is
\* Insert, every exit from Insert mode commits it.
C35_PartialOnlyInInsert ==
    [][/\ (history'.undo # history.undo \/ history'.redo # history.redo) =>
            \/ history.partial = <<>> /\ history'.partial = <<>>
            \/ mode.name = "Insert" /\ history' = commit_partial(history)
       /\ history'.partial # <<>> => mode'.name = "Insert"
       /\ (mode.name = "Insert" /\ mode'.name # "Insert") => history'.partial = <<>>]_vars

\* bytes were typed in Insert mode, Insert mode was left, and d has deleted
\* the selection with a final delta: the undo stack holds the inverse of
\* the insertion, which shortens the buffer, under the inverse of the
\* deletion, which lengthens it
C35_FinalAfterInsert ==
    /\ mode.name = "Normal"
    /\ history.partial = <<>>
    /\ Len(history.undo) = 2
    /\ new_document_len(history.undo[1].delta) < history.undo[1].delta.base_len
    /\ new_document_len(history.undo[2].delta) > history.undo[2].delta.base_len

\* C36: every Normal-mode action that reads the count prefix (move, extend,
\* absolute jump and extend, paste, select next and previous, retain and
\* remove by index) leaves the count state at None.  Here: paste.
C36_PasteClearsCount ==
    [][((\E after \in BOOLEAN : NormalPaste(after)) /\ ~panicked') =>
            mode'.count_state = CountNone]_vars

\* the part of C36 that holds: moves, extends, the absolute jump and extend,
\* select next and previous always leave the count at None, retain and
\* remove do so under a count above 0 and keep the count state otherwise
C36_OtherReadersClearCount ==
    [][/\ ((\/ \E direction \in Directions : NormalMove(direction)
            \/ \E direction \in Directions : NormalExtend(direction)
            \/ NormalJumpToMode
            \/ NormalExtendToMode
            \/ NormalSelectNext
            \/ NormalSelectPrev) /\ ~panicked') => mode'.count_state = CountNone
       /\ ((NormalRemoveMain \/ NormalRetainMain) /\ ~panicked') =>
            mode'.count_state = IF mode.count_state.some /\ mode.count_state.count > 0
                                THEN CountNone ELSE mode.count_state]_vars

\* the count 0 typed before Space or Alt-Space is still there after the key
C36_CountZeroKept ==
    /\ obs.phase = "emitted"
    /\ obs.dirty_bytes.by \in {"remove_selection", "retain_selection"}
    /\ mode = NormalWith(CountSome(FALSE, 0))

(***************************************************************************)
(* The delta factories on their own: every buffer of up to FactoryLen      *)
(* bytes, every selection of one to three sorted disjoint regions with     *)
(* caret and tail in 0..data.len(), every register.                        *)
(***************************************************************************)
FactoryLen == 3

Factories == {"deletion", "backspace", "delete_cursor", "insert", "change", "paste_after",
              "paste_before", "replace"}

InitFactories ==
    /\ \E n \in 0..FactoryLen :
          /\ data = EditBase(n)
          /\ selection \in SelSelections(n)
    /\ history = new_history
    /\ dirty = FALSE
    /\ registers \in EditRegisters
    /\ mode = NormalNew
    /\ info = ""
    /\ panicked = FALSE
    /\ buffers = with_buffer(OpenedPath)
    /\ obs = ObsIdle
    /\ keys = 0
    /\ alg = [pc |-> "factories"]

\* the builder calls of one factory on the buffer
factory_edits(factory) ==
    CASE factory = "deletion" -> deletion_edits(data, selection)
      [] factory = "backspace" -> backspace_edits(data, selection)
      [] factory = "delete_cursor" -> delete_cursor_edits(data, selection)
      [] factory = "insert" -> insert_edits(data, selection, <<0>>)
      [] factory = "change" -> change_edits(data, selection, <<0>>)
      [] factory = "paste_after" ->
            paste_edits(data, selection, register_or_default(buf), TRUE, 1)
      [] factory = "paste_before" ->
            paste_edits(data, selection, register_or_default(buf), FALSE, 1)
      [] factory = "replace" -> replace_edits(data, selection, 0)

BuildDelta(factory) ==
    /\ alg.pc = "factories"
    /\ alg' = [pc |-> "built", factory |-> factory, edits |-> factory_edits(factory),
               base_len |-> build(Len(data), factory_edits(factory)).base_len]
    /\ UNCHANGED edvars

NextFactories == \E factory \in Factories : BuildDelta(factory)

SpecFactories == InitFactories /\ [][NextFactories]_vars

\* the ranges are pairwise disjoint, in increasing order, inside [0, base_len]
ranges_inside(edits, base_len) ==
    /\ \A j \in 1..Len(edits) : 0 <= edits[j].s /\ edits[j].s <= edits[j].e
                                /\ edits[j].e <= base_len
    /\ \A j \in 1..(Len(edits) - 1) : edits[j].e <= edits[j + 1].s

\* C37: for every buffer and every selection that is sorted, disjoint and
\* has its carets in 0..data.len(), each delta factory passes the builder
\* ranges that are pairwise disjoint, in increasing order and inside
\* [0, base.len()], and the base length of the delta is that of the rope.
C37_FactoryRangesInside ==
    alg.pc = "built" =>
        /\ ranges_inside(alg.edits, Len(data))
        /\ builder_ok(alg.edits, 0)
        /\ alg.base_len = Len(data)

\* the part of C37 that holds: the ranges of every factory are in increasing
\* order and disjoint and the builder accepts them; those of backspace,
\* delete_cursor, insert and paste lie inside the base; those of deletion
\* and replace do unless a region reaches data.len(), those of change
\* unless a caret does
C37_RangesSorted ==
    alg.pc = "built" =>
        LET regions == selection.regions
            reaches_end == \E j \in 1..Len(regions) : max(regions[j]) >= Len(data)
            caret_at_end == \E j \in 1..Len(regions) : regions[j].caret >= Len(data)
        IN /\ builder_ok(alg.edits, 0)
           /\ alg.base_len = Len(data)
           /\ \A j \in 1..(Len(alg.edits) - 1) : alg.edits[j].e <= alg.edits[j + 1].s
           /\ \A j \in 1..Len(alg.edits) : alg.edits[j].s <= alg.edits[j].e
           /\ alg.factory \in {"backspace", "delete_cursor", "insert", "paste_after",
                               "paste_before"} => ranges_inside(alg.edits, Len(data))
           /\ alg.factory \in {"deletion", "replace"} =>
                (ranges_inside(alg.edits, Len(data)) <=> ~reaches_end)
           /\ alg.factory = "change" =>
                (ranges_inside(alg.edits, Len(data)) <=> ~caret_at_end)

(***************************************************************************)
(* byte_rope.rs: the leaves of a rope.  A leaf is its bytes; Rope::from    *)
(* gives the leaves it pushes to the tree builder, in order.               *)
(***************************************************************************)
MIN_LEAF == 511
MAX_LEAF == 1024

is_ok_child(leaf) == Len(leaf) >= MIN_LEAF

\* Bytes::push_maybe_split(other, start..end): [self, split], split is <<>>
\* for None and <<right_bytes>> for Some
push_maybe_split(self, other, start, end) ==
    LET extended == self \o SubSeq(other, start + 1, end)
        split_point == MAX_LEAF
    IN IF Len(extended) <= MAX_LEAF THEN [self |-> extended, split |-> <<>>]
       ELSE [self |-> SubSeq(extended, 1, split_point),
             split |-> <<SubSeq(extended, split_point + 1, Len(extended))>>]

\* the loop of From<Vec<u8>>
RECURSIVE pushed_leaves(_)
pushed_leaves(vec) ==
    IF vec = <<>> THEN <<>>
    ELSE LET split_point == Min2(Len(vec), MAX_LEAF)
         IN <<SubSeq(vec, 1, split_point)>>
                \o pushed_leaves(SubSeq(vec, split_point + 1, Len(vec)))

rope_from(vec) ==
    IF Len(vec) <= MAX_LEAF
    THEN IF vec # <<>> THEN <<vec>> ELSE <<>>
    ELSE pushed_leaves(vec)

\* the vectors and leaves drawn: byte j of a vector is j modulo 2
LeafLens == {0, 1, 2, 510, 511, 512, 1023, 1024}
VecLens == LeafLens \cup {1025, 1026, 1534, 1535, 1536, 2047, 2048, 2049, 2559, 3072, 3073}
bytes_of(n) == [j \in 1..n |-> j % 2]

InitLeaves ==
    /\ data = <<>>
    /\ selection = default_selection
    /\ history = new_history
    /\ dirty = FALSE
    /\ registers = <<>>
    /\ mode = NormalNew
    /\ info = ""
    /\ panicked = FALSE
    /\ buffers = with_buffer(OpenedPath)
    /\ obs = ObsIdle
    /\ keys = 0
    /\ \/ \E n \in VecLens : alg = [pc |-> "vec", vec |-> bytes_of(n)]
       \/ \E a \in LeafLens : \E b \in LeafLens : \E start \in {0, 1} : \E cut \in {0, 1} :
            /\ start <= b - cut
            /\ alg = [pc |-> "leaf", self |-> bytes_of(a), other |-> bytes_of(b),
                      start |-> start, end |-> b - cut]

RopeFrom ==
    /\ alg.pc = "vec"
    /\ alg' = [pc |-> "rope", vec |-> alg.vec, leaves |-> rope_from(alg.vec)]
    /\ UNCHANGED edvars

PushMaybeSplit ==
    /\ alg.pc = "leaf"
    /\ LET r == push_maybe_split(alg.self, alg.other, alg.start, alg.end)
       IN alg' = [pc |-> "pushed", self |-> alg.self, other |-> alg.other,
                  start |-> alg.start, end |-> alg.end,
                  leaves |-> <<r.self>> \o r.split]
    /\ UNCHANGED edvars

NextLeaves == RopeFrom \/ PushMaybeSplit

SpecLeaves == InitLeaves /\ [][NextLeaves]_vars

\* the bytes the leaves hold, in order
joined(leaves) == Flatten(leaves)

\* C38: every leaf of Rope::from(bytes) and of push_maybe_split has at most
\* MAX_LEAF bytes, and every leaf other than a lone root leaf has at least
\* MIN_LEAF bytes: a push that exceeds MAX_LEAF gives two leaves within
\* [MIN_LEAF, MAX_LEAF]; the leaf sizes add up to the total length.
C38_LeafSizes ==
    alg.pc \in {"rope", "pushed"} =>
        /\ \A j \in 1..Len(alg.leaves) : Len(alg.leaves[j]) <= MAX_LEAF
        /\ Len(alg.leaves) >= 2 => \A j \in 1..Len(alg.leaves) : is_ok_child(alg.leaves[j])
        /\ joined(alg.leaves) = IF alg.pc = "rope" THEN alg.vec
                                ELSE alg.self \o SubSeq(alg.other, alg.start + 1, alg.end)

\* the part of C38 that holds: no leaf has more than MAX_LEAF bytes, every
\* leaf but the last has exactly MAX_LEAF bytes, the last one is not empty,
\* and the leaves hold the bytes in order
C38_LeavesAtMostMax ==
    alg.pc \in {"rope", "pushed"} =>
        /\ \A j \in 1..Len(alg.leaves) : Len(alg.leaves[j]) <= MAX_LEAF
        /\ \A j \in 1..(Len(alg.leaves) - 1) : Len(alg.leaves[j]) = MAX_LEAF
        /\ Len(alg.leaves) >= 2 => alg.leaves[Len(alg.leaves)] # <<>>
        /\ joined(alg.leaves) = IF alg.pc = "rope" THEN alg.vec
                                ELSE alg.self \o SubSeq(alg.other, alg.start + 1, alg.end)
        /\ alg.pc = "pushed" => Len(alg.leaves) <= 2

(***************************************************************************)
(* Search mode from the start of the editor: s, S, Alt-s / and Alt-s ?,    *)
(* then SearchKeys keys in all.                                            *)
(***************************************************************************)
SearchKeys == 6

InitSearch ==
    /\ data \in {<<>>, <<0, 17>>}
    /\ selection = default_selection
    /\ history = new_history
    /\ dirty = FALSE
    /\ registers = <<>>
    /\ mode = NormalNew
    /\ info = ""
    /\ panicked = FALSE
    /\ buffers = with_buffer(OpenedPath)
    /\ obs = ObsIdle
    /\ keys = MaxKeys - SearchKeys
    /\ alg = AlgIdle

NextSearch ==
    \/ \E hex \in BOOLEAN : NormalCollapseMode(hex)
    \/ NormalSplitMode
    \/ \E hex \in BOOLEAN : SplitSearch(hex)
    \/ SearchInsertNull
    \/ SearchInsertWildcard
    \/ SearchRemoveLast
    \/ SearchRemoveThis
    \/ SearchCursorLeft
    \/ SearchCursorRight
    \/ SearchSwitchInputMode
    \/ SearchCancel
    \/ \E ch \in Byte : SearchChar(ch)
    \/ \E hex_digit \in HexDigits : SearchHexDigit(hex_digit)
    \/ SearchOther
    \/ SearchFinish

SpecSearch == InitSearch /\ [][NextSearch]_vars

\* what C39 says of a state of Search mode
search_cursor_ok(m) ==
    /\ m.cursor <= Len(m.pattern)
    /\ m.hex_half # <<>> =>
          /\ m.hex
          /\ m.cursor < Len(m.pattern)
          /\ m.pattern[m.cursor + 1] = Literal(m.hex_half[1])

\* C39: in Search mode, after any sequence of key events, the cursor is at
\* most the number of pattern pieces; hex_half is Some(h) only while hex
\* input is on and the piece at the cursor is Literal(h); and two successive
\* hex digits d1 d2 add exactly one piece Literal((d1 << 4) | d2) at the
\* cursor and advance the cursor by one: the first digit puts Literal(d1 << 4)
\* at the cursor and leaves the cursor, the second one turns that piece into
\* Literal((d1 << 4) | d2) and steps over it.
C39_SearchCursorAndHexHalf ==
    [][/\ mode'.name = "Search" => search_cursor_ok(mode')
       /\ \A d \in HexDigits :
            SearchHexDigit(d) =>
                IF panicked' THEN FALSE
                ELSE IF mode.hex_half = <<>>
                THEN /\ mode'.pattern = insert_at(mode.pattern, mode.cursor, Literal(d * 16))
                     /\ mode'.cursor = mode.cursor
                     /\ mode'.hex_half = <<d * 16>>
                ELSE /\ Len(mode'.pattern) = Len(mode.pattern)
                     /\ \A j \in 1..Len(mode.pattern) :
                          mode'.pattern[j] = IF j = mode.cursor + 1
                                             THEN Literal(mode.hex_half[1] + d)
                                             ELSE mode.pattern[j]
                     /\ mode.hex_half[1] % 16 = 0
                     /\ mode'.cursor = mode.cursor + 1
                     /\ mode'.hex_half = <<>>]_vars

\* the digits 1 1 typed in hex entry between two pieces of the pattern: one
\* piece Literal(0x11) between them, the cursor behind it
C39_ByteTyped ==
    /\ mode.name = "Search"
    /\ mode.hex
    /\ mode.hex_half = <<>>
    /\ mode.pattern = <<Wildcard, Literal(17), Literal(0)>>
    /\ mode.cursor = 2

(***************************************************************************)
(* The command line from the start of the editor: ':' and then LineKeys    *)
(* keys in all among the characters that keep the line a beginning of a    *)
(* line of CmdLines, Left, Right, Backspace, Delete and Esc.               *)
(***************************************************************************)
LineKeys == 6

InitLine ==
    /\ data = <<>>
    /\ selection = default_selection
    /\ history = new_history
    /\ dirty = FALSE
    /\ registers = <<>>
    /\ mode = NormalNew
    /\ info = ""
    /\ panicked = FALSE
    /\ buffers = with_buffer(OpenedPath)
    /\ obs = ObsIdle
    /\ keys = MaxKeys - LineKeys
    /\ alg = AlgIdle

NextLine ==
    \/ NormalCommandMode
    \/ \E ch \in CmdChars : CommandChar(ch)
    \/ CommandRemoveLast
    \/ CommandRemoveThis
    \/ CommandCursorLeft
    \/ CommandCursorRight
    \/ CommandCancel

SpecLine == InitLine /\ [][NextLine]_vars

EditingKey ==
    \/ \E ch \in CmdChars : CommandChar(ch)
    \/ CommandRemoveLast
    \/ CommandRemoveThis
    \/ CommandCursorLeft
    \/ CommandCursorRight

\* C40: in Command mode every editing key (characters, Left, Right,
\* Backspace, Delete) is handled without abort and keeps
\* 0 <= cursor <= len(command); Backspace at cursor 0 and Delete with the
\* cursor at the end of the line leave the command line and the cursor
\* unchanged.
C40_EditingKeysKeepCursor ==
    [][EditingKey =>
          /\ ~panicked'
          /\ mode'.name = "Command"
          /\ 0 <= mode'.cursor /\ mode'.cursor <= Len(mode'.command)
          /\ (CommandRemoveLast /\ mode.cursor = 0) => mode' = mode
          /\ (CommandRemoveThis /\ mode.cursor = Len(mode.command)) => mode' = mode]_vars

\* the part of C40 that holds: every state of Command mode has
\* 0 <= cursor <= len(command); characters, Left, Right and Backspace never
\* abort; Backspace at cursor 0 leaves the line and the cursor unchanged;
\* Delete removes the character at the cursor and keeps the cursor when the
\* cursor is inside the line, and aborts exactly when it is at the end
C40_CursorInsideLine ==
    [][/\ mode'.name = "Command" =>
            0 <= mode'.cursor /\ mode'.cursor <= Len(mode'.command)
       /\ ((\/ \E ch \in CmdChars : CommandChar(ch)
            \/ CommandRemoveLast
            \/ CommandCursorLeft
            \/ CommandCursorRight) => ~panicked')
       /\ (CommandRemoveLast /\ mode.cursor = 0) => mode' = mode
       /\ CommandRemoveThis =>
            IF mode.cursor = Len(mode.command) THEN panicked'
            ELSE /\ ~panicked'
                 /\ mode'.cursor = mode.cursor
                 /\ mode'.command = remove_at(mode.command, mode.cursor)]_vars

\* "wq" typed as q, Left, w: the cursor is inside the line
C40_InsertedInside ==
    /\ mode.name = "Command"
    /\ mode.command = <<"w", "q">>
    /\ mode.cursor = 1

=============================================================================
